---- MODULE Spec2Model ----
(***************************************************************************)
(* Model of the syntax-highlighting tester: the theme resolver             *)
(* (src/theme/resolver.ts) and the token merger (src/overlay/merger.ts).   *)
(*                                                                         *)
(* Strings of the program are TLA+ strings; Len, SubSeq and \o act on them *)
(* character by character, so prefix and substring tests are computed.     *)
(* Array indices in results are 0-based as in the source.                  *)
(* An optional value (T | undefined) is <<>> when absent and <<v>> when    *)
(* present.                                                                *)
(***************************************************************************)
EXTENDS Integers, Sequences, FiniteSets, TLC

VARIABLES
    files,          \* theme files on disk: path -> file
    themePath,      \* the theme path the resolver is constructed with
    pc,             \* "new" before the ThemeResolver is constructed, "ready" after;
                    \* in a run of the command, the await the main action is at
    rules,          \* ThemeResolver.rules
    semanticRules,  \* ThemeResolver.semanticRules (key -> ThemeColor)
    call,           \* the operation under study and its arguments
    ret,            \* what that operation returned, once it has run
    config,         \* a run of the command: the configuration and the files it names
    lsp,            \* the LspClient: proc, nextId, pendingRequests, isClosed, legend,
                    \* and the promises sendRequest returned
    server,         \* the language server: what was written to its stdin, what it
                    \* wrote to its stdout and the client has not read yet
    run             \* the locals of the main action: the file index, hasError, the
                    \* results written, the exit status

vars == <<files, themePath, pc, rules, semanticRules, call, ret, config, lsp, server, run>>

\* the variables of a run of the command
runVars == <<config, lsp, server, run>>

----------------------------------------------------------------------------
(* Bounds of the model *)

MaxRules == 2       \* tokenColors rules over the theme file and its base
MaxStack == 2       \* length of a scope stack passed to resolve
MaxSemTokens == 2   \* 5-tuples in a semantic token data array
MaxModifiers == 2   \* length of a modifier list
MaxContent == 3     \* characters of a text passed to merge
MaxMergeSemTokens == 2  \* semantic tokens laid over a text passed to merge

----------------------------------------------------------------------------
(* Optional values and strings *)

None == <<>>
Some(v) == <<v>>
IsSome(o) == o # <<>>
Get(o) == o[1]

charAt(s, i) == IF i >= 0 /\ i < Len(s) THEN Some(SubSeq(s, i + 1, i + 1)) ELSE None

startsWith(s, prefix) ==
    Len(prefix) <= Len(s) /\ SubSeq(s, 1, Len(prefix)) = prefix

includes(s, sub) ==
    \E i \in 0..(Len(s) - Len(sub)) : SubSeq(s, i + 1, i + Len(sub)) = sub

substring(s, from, to) == SubSeq(s, from + 1, to)

RECURSIVE SeqsOfLen(_, _)
SeqsOfLen(S, n) ==
    IF n = 0 THEN {<<>>} ELSE {Append(q, e) : q \in SeqsOfLen(S, n - 1), e \in S}

SeqsUpTo(S, n) == UNION {SeqsOfLen(S, k) : k \in 0..n}

EmptyMap == [k \in {} |-> None]
MapSet(m, k, v) == [x \in (DOMAIN m) \cup {k} |-> IF x = k THEN v ELSE m[x]]

----------------------------------------------------------------------------
(* ThemeResolver: theme files and loadTheme *)

DefaultForeground == "#D4D4D4"

ThemeColor(fg, fs) == [foreground |-> fg, fontStyle |-> fs]

NoScope == [kind |-> "undefined"]
StringScope(s) == [kind |-> "string", value |-> s]
ArrayScope(a) == [kind |-> "array", value |-> a]
ThemeRule(scope, settings) == [scope |-> scope, settings |-> settings]

MissingFile == [kind |-> "missing"]
UnparseableFile == [kind |-> "unparseable"]
ThemeFile(include, tokenColors, semanticTokenColors) ==
    [kind |-> "theme", include |-> include, tokenColors |-> tokenColors,
     semanticTokenColors |-> semanticTokenColors]

\* semanticTokenColors values are a colour string or a ThemeColor object
semanticSettings(value) ==
    IF value.kind = "string" THEN ThemeColor(Some(value.value), None) ELSE value.value

RECURSIVE setSemanticRules(_, _, _)
setSemanticRules(sem, entries, keys) ==
    IF keys = {} THEN sem
    ELSE LET k == CHOOSE x \in keys : TRUE
         IN  setSemanticRules(MapSet(sem, k, semanticSettings(entries[k])), entries, keys \ {k})

\* loadTheme: a file that cannot be read or parsed leaves the resolver as it
\* is; the included base theme is loaded before the theme's own rules.
\* variant: the theme's own rules are appended before the included base theme
RECURSIVE loadTheme_ownFirst(_, _, _)
loadTheme_ownFirst(fsys, path, st) ==
    LET file == fsys[path] IN
    IF file.kind # "theme" THEN st
    ELSE LET withRules == IF IsSome(file.tokenColors)
                          THEN st.rules \o Get(file.tokenColors)
                          ELSE st.rules
             withSem   == IF IsSome(file.semanticTokenColors)
                          THEN setSemanticRules(st.semanticRules,
                                                Get(file.semanticTokenColors),
                                                DOMAIN Get(file.semanticTokenColors))
                          ELSE st.semanticRules
             own == [rules |-> withRules, semanticRules |-> withSem]
         IN  IF IsSome(file.include)
             THEN loadTheme_ownFirst(fsys, Get(file.include), own)
             ELSE own

RECURSIVE loadTheme(_, _, _)
loadTheme(fsys, path, st) ==
    LET file == fsys[path] IN
    IF file.kind # "theme" THEN st
    ELSE LET afterBase == IF IsSome(file.include)
                          THEN loadTheme(fsys, Get(file.include), st)
                          ELSE st
             withRules == IF IsSome(file.tokenColors)
                          THEN afterBase.rules \o Get(file.tokenColors)
                          ELSE afterBase.rules
             withSem   == IF IsSome(file.semanticTokenColors)
                          THEN setSemanticRules(afterBase.semanticRules,
                                                Get(file.semanticTokenColors),
                                                DOMAIN Get(file.semanticTokenColors))
                          ELSE afterBase.semanticRules
         IN  [rules |-> withRules, semanticRules |-> withSem]

getBracketColors == <<"#FFD700", "#DA70D6", "#179FFF">>

----------------------------------------------------------------------------
(* ThemeResolver.resolveSemantic *)

RECURSIVE firstModifierRule(_, _, _, _)
firstModifierRule(sem, prefix, modifiers, k) ==
    IF k > Len(modifiers) THEN None
    ELSE LET key == prefix \o "." \o modifiers[k]
         IN  IF key \in DOMAIN sem THEN Some(sem[key])
             ELSE firstModifierRule(sem, prefix, modifiers, k + 1)

\* variant: only the "type.modifier" and "type" rules are consulted
resolveSemantic_typedOnly(sem, tokenType, modifiers) ==
    LET precise == firstModifierRule(sem, tokenType, modifiers, 1)
    IN  IF IsSome(precise) THEN precise
        ELSE IF tokenType \in DOMAIN sem THEN Some(sem[tokenType])
        ELSE None

\* variant: the wildcard rules are tried before the rule keyed by the type
resolveSemantic_wildcardFirst(sem, tokenType, modifiers) ==
    LET precise == firstModifierRule(sem, tokenType, modifiers, 1)
        wildcard == firstModifierRule(sem, "*", modifiers, 1)
    IN  IF IsSome(precise) THEN precise
        ELSE IF IsSome(wildcard) THEN wildcard
        ELSE IF tokenType \in DOMAIN sem THEN Some(sem[tokenType])
        ELSE None

resolveSemantic(sem, tokenType, modifiers) ==
    LET precise == firstModifierRule(sem, tokenType, modifiers, 1) IN
    IF IsSome(precise) THEN precise
    ELSE IF tokenType \in DOMAIN sem THEN Some(sem[tokenType])
    ELSE firstModifierRule(sem, "*", modifiers, 1)

----------------------------------------------------------------------------
(* ThemeResolver.resolve *)

\* the selectors of one rule, in scan order
ruleScopes(rule) ==
    IF rule.scope.kind = "undefined" THEN <<>>
    ELSE IF rule.scope.kind = "string"
         THEN (IF rule.scope.value = "" THEN <<>> ELSE <<rule.scope.value>>)
         ELSE rule.scope.value

\* variant: no check of the segment boundary after the prefix
selectorMatches_prefixOnly(scope, selector) == startsWith(scope, selector)

selectorMatches(scope, selector) ==
    /\ startsWith(scope, selector)
    /\ \/ Len(scope) = Len(selector)
       \/ charAt(scope, Len(selector)) = Some(".")

\* variant: the last matching selector wins whatever its length
RECURSIVE scanSelectors_lastMatch(_, _, _, _, _)
scanSelectors_lastMatch(selectors, settings, k, scope, best) ==
    IF k > Len(selectors) THEN best
    ELSE LET selector == selectors[k]
             next == IF selectorMatches(scope, selector)
                     THEN [score |-> Len(selector), match |-> Some(settings)]
                     ELSE best
         IN  scanSelectors_lastMatch(selectors, settings, k + 1, scope, next)

RECURSIVE scanSelectors(_, _, _, _, _)
scanSelectors(selectors, settings, k, scope, best) ==
    IF k > Len(selectors) THEN best
    ELSE LET selector == selectors[k]
             score == Len(selector)
             next == IF selectorMatches(scope, selector) /\ score >= best.score
                     THEN [score |-> score, match |-> Some(settings)]
                     ELSE best
         IN  scanSelectors(selectors, settings, k + 1, scope, next)

RECURSIVE scanRules(_, _, _, _)
scanRules(rs, k, scope, best) ==
    IF k > Len(rs) THEN best
    ELSE scanRules(rs, k + 1, scope,
                   scanSelectors(ruleScopes(rs[k]), rs[k].settings, 1, scope, best))

bestMatchForScope(rs, scope) ==
    scanRules(rs, 1, scope, [score |-> -1, match |-> None]).match

ThemeMatch(color, idx) == [color |-> color, matchedScopeIndex |-> idx]

RECURSIVE resolveFrom(_, _, _)
resolveFrom(rs, scopes, i) ==
    IF i < 0 THEN ThemeMatch(ThemeColor(Some(DefaultForeground), None), -1)
    ELSE LET best == bestMatchForScope(rs, scopes[i + 1])
         IN  IF IsSome(best) THEN ThemeMatch(Get(best), i)
             ELSE resolveFrom(rs, scopes, i - 1)

\* variant: the stack is walked from the root, the outermost match wins
RECURSIVE resolveFromRoot(_, _, _)
resolveFromRoot(rs, scopes, i) ==
    IF i >= Len(scopes) THEN ThemeMatch(ThemeColor(Some(DefaultForeground), None), -1)
    ELSE LET best == bestMatchForScope(rs, scopes[i + 1])
         IN  IF IsSome(best) THEN ThemeMatch(Get(best), i)
             ELSE resolveFromRoot(rs, scopes, i + 1)

resolve_rootFirst(rs, scopes) == resolveFromRoot(rs, scopes, 0)

resolve(rs, scopes) == resolveFrom(rs, scopes, Len(scopes) - 1)

----------------------------------------------------------------------------
(* TokenMerger: semantic token decoding *)

defaultLegend ==
    << "namespace", "type", "class", "enum", "interface", "struct", "typeParameter",
       "parameter", "variable", "property", "enumMember", "event", "function",
       "method", "macro", "keyword", "modifier", "comment", "string", "number",
       "regexp", "operator", "decorator" >>

\* array[idx] of a JavaScript array: undefined outside the array
at(array, idx) == IF idx >= 0 /\ idx < Len(array) THEN Some(array[idx + 1]) ELSE None

truthyString(o) == IsSome(o) /\ Get(o) # ""

lookupTokenType(idx, legend) ==
    IF IsSome(legend) /\ truthyString(at(Get(legend).tokenTypes, idx))
    THEN Get(legend).tokenTypes[idx + 1]
    ELSE IF truthyString(at(defaultLegend, idx)) THEN defaultLegend[idx + 1] ELSE "unknown"

\* modBitmask & (1 << i): the shift count is taken modulo 32
bitSet(modBitmask, i) == (modBitmask \div (2 ^ (i % 32))) % 2 = 1

RECURSIVE modifiersFrom(_, _, _)
modifiersFrom(modBitmask, names, i) ==
    IF i >= Len(names) THEN <<>>
    ELSE (IF bitSet(modBitmask, i) THEN <<names[i + 1]>> ELSE <<>>)
         \o modifiersFrom(modBitmask, names, i + 1)

lookupTokenModifiers(modBitmask, legend) ==
    IF IsSome(legend) THEN modifiersFrom(modBitmask, Get(legend).tokenModifiers, 0) ELSE <<>>

SemToken(start, end, type, modifiers) ==
    [start |-> start, end |-> end, type |-> type, modifiers |-> modifiers]

\* variant: the start is always added to the previous start
RECURSIVE parseFrom_noReset(_, _, _, _, _, _)
parseFrom_noReset(data, i, line, char, legend, map) ==
    IF i >= Len(data) THEN map
    ELSE LET line2 == IF data[i + 1] > 0 THEN line + data[i + 1] ELSE line
             char2 == char + data[i + 2]
             token == SemToken(char2, char2 + data[i + 3],
                               lookupTokenType(data[i + 4], legend),
                               lookupTokenModifiers(data[i + 5], legend))
             sofar == IF line2 \in DOMAIN map THEN map[line2] ELSE <<>>
         IN  parseFrom_noReset(data, i + 5, line2, char2, legend,
                               MapSet(map, line2, Append(sofar, token)))

RECURSIVE parseFrom(_, _, _, _, _, _)
parseFrom(data, i, line, char, legend, map) ==
    IF i >= Len(data) THEN map
    ELSE LET deltaLine == data[i + 1]
             deltaStart == data[i + 2]
             length == data[i + 3]
             tokenTypeIdx == data[i + 4]
             tokenMod == data[i + 5]
             line2 == IF deltaLine > 0 THEN line + deltaLine ELSE line
             char2 == IF deltaLine > 0 THEN deltaStart ELSE char + deltaStart
             token == SemToken(char2, char2 + length,
                               lookupTokenType(tokenTypeIdx, legend),
                               lookupTokenModifiers(tokenMod, legend))
             sofar == IF line2 \in DOMAIN map THEN map[line2] ELSE <<>>
         IN  parseFrom(data, i + 5, line2, char2, legend, MapSet(map, line2, Append(sofar, token)))

\* tokens is null (None) or an object with a data array
parseSemanticTokens(tokens, legend) ==
    IF IsSome(tokens) THEN parseFrom(Get(tokens).data, 0, 0, 0, legend, EmptyMap) ELSE EmptyMap

----------------------------------------------------------------------------
(* TokenMerger: style resolution *)

STANDARD_TOKEN_MAP ==
    ("comment" :> <<"comment">>) @@
    ("string" :> <<"string">>) @@
    ("keyword" :> <<"keyword.control">>) @@
    ("number" :> <<"constant.numeric">>) @@
    ("regexp" :> <<"constant.regexp">>) @@
    ("operator" :> <<"keyword.operator">>) @@
    ("namespace" :> <<"entity.name.namespace">>) @@
    ("type" :> <<"entity.name.type", "support.type">>) @@
    ("type.defaultLibrary" :> <<"support.type">>) @@
    ("struct" :> <<"entity.name.type.struct">>) @@
    ("class" :> <<"entity.name.type.class", "support.class">>) @@
    ("class.defaultLibrary" :> <<"support.class">>) @@
    ("interface" :> <<"entity.name.type.interface">>) @@
    ("enum" :> <<"entity.name.type.enum">>) @@
    ("typeParameter" :> <<"entity.name.type.parameter">>) @@
    ("function" :> <<"entity.name.function", "support.function">>) @@
    ("function.defaultLibrary" :> <<"support.function">>) @@
    ("member.defaultLibrary" :> <<"support.function">>) @@
    ("method" :> <<"entity.name.function.member", "support.function">>) @@
    ("macro" :> <<"entity.name.function.preprocessor">>) @@
    ("variable" :> <<"variable.other.readwrite", "entity.name.variable">>) @@
    ("variable.readonly" :> <<"variable.other.constant">>) @@
    ("variable.defaultLibrary.readonly" :> <<"support.constant">>) @@
    ("parameter" :> <<"variable.parameter">>) @@
    ("property" :> <<"variable.other.property">>) @@
    ("property.readonly" :> <<"variable.other.constant.property">>) @@
    ("property.defaultLibrary.readonly" :> <<"support.constant.property">>) @@
    ("enumMember" :> <<"variable.other.enummember">>) @@
    ("event" :> <<"variable.other.event">>) @@
    ("decorator" :> <<"entity.name.decorator", "entity.name.function">>) @@
    ("modifier" :> <<"keyword.control">>)

arrayIncludes(array, v) == \E i \in 1..Len(array) : array[i] = v

tableEntry(key) == IF key \in DOMAIN STANDARD_TOKEN_MAP THEN Some(STANDARD_TOKEN_MAP[key]) ELSE None

\* variant: the table is never consulted
getStandardFallbackScope_none(type, modifiers) == None

\* variant: the bare type is looked up first
getStandardFallbackScope_bareFirst(type, modifiers) ==
    LET defaultLibPart == IF arrayIncludes(modifiers, "defaultLibrary") THEN ".defaultLibrary" ELSE ""
        readOnlyPart == IF arrayIncludes(modifiers, "readonly") THEN ".readonly" ELSE ""
    IN  IF IsSome(tableEntry(type)) THEN tableEntry(type)
        ELSE IF IsSome(tableEntry(type \o readOnlyPart)) THEN tableEntry(type \o readOnlyPart)
        ELSE IF IsSome(tableEntry(type \o defaultLibPart)) THEN tableEntry(type \o defaultLibPart)
        ELSE tableEntry(type \o defaultLibPart \o readOnlyPart)

getStandardFallbackScope(type, modifiers) ==
    LET defaultLibPart == IF arrayIncludes(modifiers, "defaultLibrary") THEN ".defaultLibrary" ELSE ""
        readOnlyPart == IF arrayIncludes(modifiers, "readonly") THEN ".readonly" ELSE ""
        key == type \o defaultLibPart \o readOnlyPart
    IN  IF IsSome(tableEntry(key)) THEN tableEntry(key)
        ELSE IF IsSome(tableEntry(type \o readOnlyPart)) THEN tableEntry(type \o readOnlyPart)
        ELSE IF IsSome(tableEntry(type \o defaultLibPart)) THEN tableEntry(type \o defaultLibPart)
        ELSE tableEntry(type)

\* variant: the elements are concatenated without the separator
RECURSIVE join_noSeparator(_, _)
join_noSeparator(array, sep) ==
    IF Len(array) = 0 THEN "" ELSE array[1] \o join_noSeparator(Tail(array), sep)

RECURSIVE join(_, _)
join(array, sep) ==
    IF Len(array) = 0 THEN ""
    ELSE IF Len(array) = 1 THEN array[1]
    ELSE array[1] \o sep \o join(Tail(array), sep)

\* foreground || '#D4D4D4'
orDefault(fg) == IF truthyString(fg) THEN Get(fg) ELSE DefaultForeground

resolveScopeColor(rs, scope) == orDefault(resolve(rs, <<scope>>).color.foreground)

\* s.match(/: (.*)\)/): group 1 of the leftmost match, the group being greedy
hintGroup(s) ==
    LET closers(i) == {j \in (i + 2)..Len(s) : SubSeq(s, j, j) = ")"}
        starts == {i \in 1..(Len(s) - 1) : SubSeq(s, i, i + 1) = ": " /\ closers(i) # {}}
    IN  IF starts = {} THEN None
        ELSE LET i == CHOOSE x \in starts : \A y \in starts : x <= y
                 j == CHOOSE x \in closers(i) : \A y \in closers(i) : y <= x
             IN  Some(SubSeq(s, i + 2, j - 1))

traceColor(rs, s) ==
    IF s = "__TM_SCOPES__" \/ startsWith(s, "modifiers:") THEN ""
    ELSE IF startsWith(s, "(fallback to standard scope:")
         THEN (IF IsSome(hintGroup(s)) THEN resolveScopeColor(rs, Get(hintGroup(s))) ELSE "")
    ELSE IF startsWith(s, "(fallback") THEN ""
    ELSE resolveScopeColor(rs, s)

TokenInputState(tmScopes, semantic) == [tmScopes |-> tmScopes, semantic |-> semantic]

ResolvedStyle(foreground, fontStyle, source, scopes, scopeColors, activeScopeIndex) ==
    [foreground |-> foreground, fontStyle |-> fontStyle, source |-> source,
     scopes |-> scopes, scopeColors |-> scopeColors, activeScopeIndex |-> activeScopeIndex]

\* variant: the semantic type is never corrected
correctedType_asReported(type, tmScopes) == type

\* the SourceKit-LSP correction of the semantic type
correctedType(type, tmScopes) ==
    IF type = "macro" /\ \E i \in 1..Len(tmScopes) : includes(tmScopes[i], "attribute")
    THEN "modifier"
    ELSE type

\* variant: the lexical tier reports the index into the scope stack, not into
\* the trace
resolveStyle_indexIntoStack(rs, sem, state) ==
    LET tmScopes == state.tmScopes
        tmMatch == resolve(rs, tmScopes)
    IN
    IF ~IsSome(state.semantic)
    THEN ResolvedStyle(orDefault(tmMatch.color.foreground), tmMatch.color.fontStyle,
                       "textmate", tmScopes,
                       [i \in 1..Len(tmScopes) |-> resolveScopeColor(rs, tmScopes[i])],
                       tmMatch.matchedScopeIndex)
    ELSE
    LET type == correctedType(Get(state.semantic).type, tmScopes)
        modifiers == Get(state.semantic).modifiers
        scopes1 == <<type>> \o (IF Len(modifiers) > 0
                                THEN <<"modifiers: " \o join(modifiers, ",")>>
                                ELSE <<>>)
        explicitColor == resolveSemantic(sem, type, modifiers)
        fallbackScopes == IF ~IsSome(explicitColor)
                          THEN getStandardFallbackScope(type, modifiers)
                          ELSE None
        standardColor == IF IsSome(fallbackScopes)
                         THEN Some(resolve(rs, Get(fallbackScopes)).color)
                         ELSE None
        hint == IF IsSome(fallbackScopes)
                THEN <<"(fallback to standard scope: " \o join(Get(fallbackScopes), ", ") \o ")">>
                ELSE <<>>
        finalColor == IF IsSome(explicitColor) THEN Get(explicitColor)
                      ELSE IF IsSome(standardColor) THEN Get(standardColor)
                      ELSE tmMatch.color
        scopes2 == IF IsSome(explicitColor) \/ IsSome(standardColor)
                   THEN scopes1 \o hint
                   ELSE Append(scopes1, "(fallback to TextMate color)")
        activeIndex1 == IF IsSome(explicitColor) THEN 0
                        ELSE IF IsSome(standardColor) /\ IsSome(fallbackScopes)
                             THEN Len(scopes2) - 1
                             ELSE -1
        scopes3 == Append(scopes2, "__TM_SCOPES__")
        tmStartIndex == Len(scopes3)
        finalScopes == scopes3 \o tmScopes
        activeIndex == IF ~IsSome(explicitColor) /\ ~IsSome(standardColor)
                          /\ tmMatch.matchedScopeIndex # -1
                       THEN tmMatch.matchedScopeIndex
                       ELSE activeIndex1
    IN  ResolvedStyle(orDefault(finalColor.foreground), finalColor.fontStyle,
                      "semantic", finalScopes,
                      [i \in 1..Len(finalScopes) |-> traceColor(rs, finalScopes[i])],
                      activeIndex)

resolveStyle(rs, sem, state) ==
    LET tmScopes == state.tmScopes
        tmMatch == resolve(rs, tmScopes)
    IN
    IF ~IsSome(state.semantic)
    THEN ResolvedStyle(orDefault(tmMatch.color.foreground), tmMatch.color.fontStyle,
                       "textmate", tmScopes,
                       [i \in 1..Len(tmScopes) |-> resolveScopeColor(rs, tmScopes[i])],
                       tmMatch.matchedScopeIndex)
    ELSE
    LET type == correctedType(Get(state.semantic).type, tmScopes)
        modifiers == Get(state.semantic).modifiers
        scopes1 == <<type>> \o (IF Len(modifiers) > 0
                                THEN <<"modifiers: " \o join(modifiers, ",")>>
                                ELSE <<>>)
        explicitColor == resolveSemantic(sem, type, modifiers)
        fallbackScopes == IF ~IsSome(explicitColor)
                          THEN getStandardFallbackScope(type, modifiers)
                          ELSE None
        standardColor == IF IsSome(fallbackScopes)
                         THEN Some(resolve(rs, Get(fallbackScopes)).color)
                         ELSE None
        hint == IF IsSome(fallbackScopes)
                THEN <<"(fallback to standard scope: " \o join(Get(fallbackScopes), ", ") \o ")">>
                ELSE <<>>
        finalColor == IF IsSome(explicitColor) THEN Get(explicitColor)
                      ELSE IF IsSome(standardColor) THEN Get(standardColor)
                      ELSE tmMatch.color
        scopes2 == IF IsSome(explicitColor) \/ IsSome(standardColor)
                   THEN scopes1 \o hint
                   ELSE Append(scopes1, "(fallback to TextMate color)")
        activeIndex1 == IF IsSome(explicitColor) THEN 0
                        ELSE IF IsSome(standardColor) /\ IsSome(fallbackScopes)
                             THEN Len(scopes2) - 1
                             ELSE -1
        scopes3 == Append(scopes2, "__TM_SCOPES__")
        tmStartIndex == Len(scopes3)
        finalScopes == scopes3 \o tmScopes
        activeIndex == IF ~IsSome(explicitColor) /\ ~IsSome(standardColor)
                          /\ tmMatch.matchedScopeIndex # -1
                       THEN tmStartIndex + tmMatch.matchedScopeIndex
                       ELSE activeIndex1
    IN  ResolvedStyle(orDefault(finalColor.foreground), finalColor.fontStyle,
                      "semantic", finalScopes,
                      [i \in 1..Len(finalScopes) |-> traceColor(rs, finalScopes[i])],
                      activeIndex)

\* variant: two styles are equal when they look the same
areStylesEqual_colorOnly(a, b) ==
    /\ a.foreground = b.foreground
    /\ a.fontStyle = b.fontStyle

\* variant: the traces are compared as objects (a.scopes === b.scopes), and
\* two separately resolved styles never share their trace array
areStylesEqual_scopesByIdentity(a, b) ==
    /\ a.foreground = b.foreground
    /\ a.fontStyle = b.fontStyle
    /\ a.source = b.source
    /\ a.activeScopeIndex = b.activeScopeIndex
    /\ FALSE

areStylesEqual(a, b) ==
    /\ a.foreground = b.foreground
    /\ a.fontStyle = b.fontStyle
    /\ a.source = b.source
    /\ a.activeScopeIndex = b.activeScopeIndex
    /\ a.scopes = b.scopes

----------------------------------------------------------------------------
(* TokenMerger.merge and the bracket pass *)

\* content.split(/\r\n|\r|\n/)
RECURSIVE splitFrom(_, _, _)
splitFrom(content, i, current) ==
    IF i > Len(content) THEN <<current>>
    ELSE LET c == SubSeq(content, i, i) IN
         IF c = "\r" /\ i < Len(content) /\ SubSeq(content, i + 1, i + 1) = "\n"
         THEN <<current>> \o splitFrom(content, i + 2, "")
         ELSE IF c = "\r" \/ c = "\n"
         THEN <<current>> \o splitFrom(content, i + 1, "")
         ELSE splitFrom(content, i + 1, current \o c)

splitLines(content) == splitFrom(content, 1, "")

TmToken(line, startIndex, endIndex, scopes) ==
    [line |-> line, startIndex |-> startIndex, endIndex |-> endIndex, scopes |-> scopes]

StyledRange(line, startChar, endChar, text, style) ==
    [startLine |-> line, startChar |-> startChar, endLine |-> line, endChar |-> endChar,
     text |-> text, foreground |-> style.foreground, fontStyle |-> style.fontStyle,
     source |-> style.source, scopes |-> style.scopes,
     scopeColors |-> Some(style.scopeColors),
     activeScopeIndex |-> Some(style.activeScopeIndex)]

\* the range pushed for an empty line: no fontStyle, no activeScopeIndex
EmptyLineRange(i) ==
    [startLine |-> i, startChar |-> 0, endLine |-> i, endChar |-> 0,
     text |-> "", foreground |-> "", fontStyle |-> None,
     source |-> "textmate", scopes |-> <<>>,
     scopeColors |-> Some(<<>>), activeScopeIndex |-> None]

filterLine(tmTokens, i) == SelectSeq(tmTokens, LAMBDA t : t.line = i)

\* step B: lineState is indexed 0 .. lineLen - 1
RECURSIVE applyTmTokens(_, _, _)
applyTmTokens(lineState, lineTmTokens, n) ==
    IF n > Len(lineTmTokens) THEN lineState
    ELSE LET t == lineTmTokens[n]
         IN  applyTmTokens(
                 [k \in DOMAIN lineState |->
                     IF k >= t.startIndex /\ k < t.endIndex
                     THEN [lineState[k] EXCEPT !.tmScopes = t.scopes]
                     ELSE lineState[k]],
                 lineTmTokens, n + 1)

\* step C
RECURSIVE applySemTokens(_, _, _)
applySemTokens(lineState, lineSemTokens, n) ==
    IF n > Len(lineSemTokens) THEN lineState
    ELSE LET t == lineSemTokens[n]
         IN  applySemTokens(
                 [k \in DOMAIN lineState |->
                     IF k >= t.start /\ k < t.end
                     THEN [lineState[k] EXCEPT
                             !.semantic = Some([type |-> t.type, modifiers |-> t.modifiers])]
                     ELSE lineState[k]],
                 lineSemTokens, n + 1)

buildLineState(lineLen, i, tmTokens, semanticMap) ==
    LET blank == [k \in 0..(lineLen - 1) |-> TokenInputState(<<>>, None)]
        withTm == applyTmTokens(blank, filterLine(tmTokens, i), 1)
    IN  IF i \in DOMAIN semanticMap
        THEN applySemTokens(withTm, semanticMap[i], 1)
        ELSE withTm

\* step D: close a run where the style changes, push the last run at the end
RECURSIVE compress(_, _, _, _, _, _, _, _, _)
compress(rs, sem, i, lineText, lineState, k, currentStart, currentStyle, out) ==
    IF k >= Len(lineText)
    THEN Append(out, StyledRange(i, currentStart, Len(lineText),
                                 substring(lineText, currentStart, Len(lineText)),
                                 currentStyle))
    ELSE LET nextStyle == resolveStyle(rs, sem, lineState[k])
         IN  IF areStylesEqual(currentStyle, nextStyle)
             THEN compress(rs, sem, i, lineText, lineState, k + 1,
                           currentStart, currentStyle, out)
             ELSE compress(rs, sem, i, lineText, lineState, k + 1, k, nextStyle,
                           Append(out, StyledRange(i, currentStart, k,
                                                   substring(lineText, currentStart, k),
                                                   currentStyle)))

RECURSIVE mergeLines(_, _, _, _, _, _, _)
mergeLines(rs, sem, lines, i, tmTokens, semanticMap, output) ==
    IF i >= Len(lines) THEN output
    ELSE LET lineText == lines[i + 1]
             lineLen == Len(lineText)
         IN  IF lineLen = 0
             THEN mergeLines(rs, sem, lines, i + 1, tmTokens, semanticMap,
                             Append(output, EmptyLineRange(i)))
             ELSE LET lineState == buildLineState(lineLen, i, tmTokens, semanticMap)
                  IN  mergeLines(rs, sem, lines, i + 1, tmTokens, semanticMap,
                                 compress(rs, sem, i, lineText, lineState, 1, 0,
                                          resolveStyle(rs, sem, lineState[0]), output))

\* the ranges of the lines before the bracket pass (merge, steps 1 and 2)
mergeOutput(rs, sem, content, tmTokens, semanticTokens, legend) ==
    mergeLines(rs, sem, splitLines(content), 0, tmTokens,
               parseSemanticTokens(semanticTokens, legend), <<>>)

isOpening(char) == char \in {"(", "[", "{"}
isBracket(char) == char \in {"(", ")", "[", "]", "{", "}"}

\* token.text.matchAll(/[\(\)\[\]\{\}]/g): the 0-based indices of the brackets
RECURSIVE bracketMatches(_, _)
bracketMatches(text, idx) ==
    IF idx >= Len(text) THEN <<>>
    ELSE (IF isBracket(SubSeq(text, idx + 1, idx + 1)) THEN <<idx>> ELSE <<>>)
         \o bracketMatches(text, idx + 1)

\* variant: an embedded scope makes any range safe
isSafeScope_embeddedWins(token) ==
    LET some(sub) == \E i \in 1..Len(token.scopes) : includes(token.scopes[i], sub)
        hasString == some("string")
        hasComment == some("comment")
        hasRegex == some("regex")
        isEmbedded == some("embedded") \/ some("interpolation")
                        \/ some("punctuation.section.embedded")
    IN  (~hasComment /\ ~hasRegex /\ ~hasString) \/ isEmbedded

isSafeScope(token) ==
    LET some(sub) == \E i \in 1..Len(token.scopes) : includes(token.scopes[i], sub)
        hasString == some("string")
        hasComment == some("comment")
        hasRegex == some("regex")
        isEmbedded == some("embedded") \/ some("interpolation")
                        \/ some("punctuation.section.embedded")
    IN  ~hasComment /\ ~hasRegex /\ (~hasString \/ isEmbedded)

\* variant: a closing bracket pairs with whatever opener is on top
isValidPair_anyOpener(char, stack) == Len(stack) > 0

isValidPair(char, stack) ==
    /\ Len(stack) > 0
    /\ \/ char = ")" /\ stack[Len(stack)] = "("
       \/ char = "]" /\ stack[Len(stack)] = "["
       \/ char = "}" /\ stack[Len(stack)] = "{"

\* variant: a closing bracket is coloured by the depth before its pop
bracketStep_depthBeforePop(token, char, stack) ==
    LET bracketColors == getBracketColors IN
    IF isOpening(char)
    THEN [color |-> bracketColors[(Len(stack) % Len(bracketColors)) + 1],
          stack |-> Append(stack, char)]
    ELSE IF isValidPair(char, stack)
    THEN [color |-> bracketColors[(Len(stack) % Len(bracketColors)) + 1],
          stack |-> SubSeq(stack, 1, Len(stack) - 1)]
    ELSE [color |-> token.foreground, stack |-> stack]

\* variant: the opening bracket is pushed before its depth is read
bracketStep_pushFirst(token, char, stack) ==
    LET bracketColors == getBracketColors IN
    IF isOpening(char)
    THEN [color |-> bracketColors[(Len(Append(stack, char)) % Len(bracketColors)) + 1],
          stack |-> Append(stack, char)]
    ELSE IF isValidPair(char, stack)
    THEN LET popped == SubSeq(stack, 1, Len(stack) - 1)
         IN  [color |-> bracketColors[(Len(popped) % Len(bracketColors)) + 1],
              stack |-> popped]
    ELSE [color |-> token.foreground, stack |-> stack]

\* the colour of one bracket and the stack after it
bracketStep(token, char, stack) ==
    LET bracketColors == getBracketColors IN
    IF isOpening(char)
    THEN [color |-> bracketColors[(Len(stack) % Len(bracketColors)) + 1],
          stack |-> Append(stack, char)]
    ELSE IF isValidPair(char, stack)
    THEN LET popped == SubSeq(stack, 1, Len(stack) - 1)
         IN  [color |-> bracketColors[(Len(popped) % Len(bracketColors)) + 1],
              stack |-> popped]
    ELSE [color |-> token.foreground, stack |-> stack]

\* variant: the bracket range runs to the end of the token it was cut from
bracketToken_toTokenEnd(token, idx, char, color) ==
    [token EXCEPT !.startChar = token.startChar + idx,
                  !.text = char,
                  !.foreground = color,
                  !.scopes = Append(token.scopes, "bracket-pair-colorization"),
                  !.scopeColors = IF IsSome(token.scopeColors)
                                  THEN Some(Append(Get(token.scopeColors), color))
                                  ELSE None,
                  !.activeScopeIndex = Some(Len(token.scopes))]

bracketToken(token, idx, char, color) ==
    [token EXCEPT !.startChar = token.startChar + idx,
                  !.endChar = token.startChar + idx + 1,
                  !.text = char,
                  !.foreground = color,
                  !.scopes = Append(token.scopes, "bracket-pair-colorization"),
                  !.scopeColors = IF IsSome(token.scopeColors)
                                  THEN Some(Append(Get(token.scopeColors), color))
                                  ELSE None,
                  !.activeScopeIndex = Some(Len(token.scopes))]

\* variant: the text cut off before a bracket loses its colour
textToken_defaultForeground(token, from, to) ==
    [token EXCEPT !.startChar = token.startChar + from,
                  !.endChar = token.startChar + to,
                  !.text = substring(token.text, from, to),
                  !.foreground = DefaultForeground]

textToken(token, from, to) ==
    [token EXCEPT !.startChar = token.startChar + from,
                  !.endChar = token.startChar + to,
                  !.text = substring(token.text, from, to)]

\* the content after the last bracket keeps the token's endChar
tailToken(token, from) ==
    [token EXCEPT !.startChar = token.startChar + from,
                  !.text = substring(token.text, from, Len(token.text))]

\* the loop over the matches of one token; st = [stack, expandedTokens]
RECURSIVE splitToken(_, _, _, _, _)
splitToken(token, matches, n, lastIdx, st) ==
    IF n > Len(matches)
    THEN IF lastIdx < Len(token.text)
         THEN [st EXCEPT !.expandedTokens = Append(@, tailToken(token, lastIdx))]
         ELSE st
    ELSE LET idx == matches[n]
             char == SubSeq(token.text, idx + 1, idx + 1)
             before == IF idx > lastIdx
                       THEN Append(st.expandedTokens, textToken(token, lastIdx, idx))
                       ELSE st.expandedTokens
             step == bracketStep(token, char, st.stack)
         IN  splitToken(token, matches, n + 1, idx + 1,
                        [stack |-> step.stack,
                         expandedTokens |-> Append(before, bracketToken(token, idx, char, step.color))])

\* variant: the stack is emptied when the pass reaches a range of another line
RECURSIVE bracketPass_resetPerLine(_, _, _)
bracketPass_resetPerLine(tokens, n, st) ==
    IF n > Len(tokens) THEN st
    ELSE LET token == tokens[n]
             matches == bracketMatches(token.text, 0)
             st0 == IF n > 1 /\ tokens[n - 1].startLine # token.startLine
                    THEN [st EXCEPT !.stack = <<>>]
                    ELSE st
         IN  IF ~isSafeScope(token) \/ Len(token.text) = 0 \/ Len(matches) = 0
             THEN bracketPass_resetPerLine(tokens, n + 1,
                                           [st0 EXCEPT !.expandedTokens = Append(@, token)])
             ELSE bracketPass_resetPerLine(tokens, n + 1, splitToken(token, matches, 1, 0, st0))

RECURSIVE bracketPass(_, _, _)
bracketPass(tokens, n, st) ==
    IF n > Len(tokens) THEN st
    ELSE LET token == tokens[n]
             matches == bracketMatches(token.text, 0)
         IN  IF ~isSafeScope(token) \/ Len(token.text) = 0 \/ Len(matches) = 0
             THEN bracketPass(tokens, n + 1,
                              [st EXCEPT !.expandedTokens = Append(@, token)])
             ELSE bracketPass(tokens, n + 1, splitToken(token, matches, 1, 0, st))

applyBracketPairColorization(tokens) ==
    bracketPass(tokens, 1, [stack |-> <<>>, expandedTokens |-> <<>>]).expandedTokens

\* the local stack of applyBracketPairColorization when it returns
bracketStack(tokens) ==
    bracketPass(tokens, 1, [stack |-> <<>>, expandedTokens |-> <<>>]).stack

merge(rs, sem, content, tmTokens, semanticTokens, legend) ==
    applyBracketPairColorization(
        mergeOutput(rs, sem, content, tmTokens, semanticTokens, legend))

----------------------------------------------------------------------------
(* Inputs of the theme resolver specification *)

ColorA == "#000000"
ColorB == "#FFFFFF"
ColorC == "#0000FF"

ThemeRuleSet ==
    { ThemeRule(StringScope("variable"), ThemeColor(Some(ColorA), None)),
      ThemeRule(StringScope("variable.parameter"), ThemeColor(Some(ColorB), None)),
      ThemeRule(StringScope("variable"), ThemeColor(Some(ColorB), Some("italic"))),
      ThemeRule(ArrayScope(<<"var", "variable.x">>), ThemeColor(None, Some("bold"))),
      ThemeRule(NoScope, ThemeColor(Some(ColorC), None)) }

ScopeNames ==
    { "source.x", "variable", "variable.parameter.y", "variable.x", "var.something" }

ScopeStacks == SeqsUpTo(ScopeNames, MaxStack)

ChildPath == "child-theme.json"
BasePath == "base-theme.json"
ThemePaths == {ChildPath, BasePath}

BaseFiles(n) ==
    {MissingFile, UnparseableFile} \cup {ThemeFile(None, Some(rs), None) : rs \in SeqsUpTo(ThemeRuleSet, n)}

OneTheme(file, base) == [p \in ThemePaths |-> IF p = ChildPath THEN file ELSE base]

\* files holds a theme whose tokenColors vary: the theme alone, or the theme
\* including a base theme, with at most MaxRules rules over the two
IsTokenColorTheme ==
    \/ \E tc \in {None} \cup {Some(rs) : rs \in SeqsUpTo(ThemeRuleSet, MaxRules)} :
         files = OneTheme(ThemeFile(None, tc, None), MissingFile)
    \/ \E own \in SeqsUpTo(ThemeRuleSet, MaxRules) :
         \E base \in BaseFiles(MaxRules - Len(own)) :
           files = OneTheme(ThemeFile(Some(BasePath), Some(own), None), base)

SemTypes == {"variable", "function"}
SemModifiers == {"readonly", "declaration"}
SemKeys ==
    SemTypes \cup {t \o "." \o m : t \in SemTypes, m \in SemModifiers}
             \cup {"*." \o m : m \in SemModifiers}

\* every semantic rule carries a colour that names its key
SemValue(key) ==
    IF key \in SemTypes
    THEN [kind |-> "string", value |-> "#" \o key]
    ELSE [kind |-> "object", value |-> ThemeColor(Some("#" \o key), Some("italic"))]

\* files holds a theme with semantic rules only
IsSemanticTheme ==
    \E keys \in SUBSET SemKeys :
      files = OneTheme(ThemeFile(None, None, Some([k \in keys |-> SemValue(k)])), MissingFile)

ModifierLists == SeqsUpTo(SemModifiers, MaxModifiers)

----------------------------------------------------------------------------
(* Actions.  The arguments of the call under study are drawn in the initial
   state (call); an action applies the operation and records what it
   returned (ret). *)

NotReturned == [op |-> "none"]

\* no run of the command is under way
NoRun ==
    /\ config = [files |-> <<>>]
    /\ lsp = [proc |-> "null"]
    /\ server = [mode |-> "none"]
    /\ run = [fileIndex |-> 0]

IsResolveCall == \E scopes \in ScopeStacks : call = [op |-> "resolve", scopes |-> scopes]

IsResolveSemanticCall ==
    \E t \in SemTypes, ms \in ModifierLists :
      call = [op |-> "resolveSemantic", tokenType |-> t, modifiers |-> ms]

\* new ThemeResolver(themePath)
Construct ==
    /\ pc = "new"
    /\ LET st == loadTheme(files, themePath, [rules |-> <<>>, semanticRules |-> EmptyMap])
       IN  /\ rules' = st.rules
           /\ semanticRules' = st.semanticRules
    /\ pc' = "ready"
    /\ UNCHANGED <<files, themePath, call, ret, runVars>>

\* themeResolver.resolve(scopes)
Resolve ==
    /\ pc = "ready"
    /\ call.op = "resolve"
    /\ ret' = [op |-> "resolve", value |-> resolve(rules, call.scopes)]
    /\ UNCHANGED <<files, themePath, pc, rules, semanticRules, call, runVars>>

\* themeResolver.resolveSemantic(tokenType, modifiers)
ResolveSemantic ==
    /\ pc = "ready"
    /\ call.op = "resolveSemantic"
    /\ ret' = [op |-> "resolveSemantic",
               value |-> resolveSemantic(semanticRules, call.tokenType, call.modifiers)]
    /\ UNCHANGED <<files, themePath, pc, rules, semanticRules, call, runVars>>

InitTheme ==
    /\ \/ IsTokenColorTheme /\ IsResolveCall
       \/ IsSemanticTheme /\ IsResolveSemanticCall
    /\ themePath = ChildPath
    /\ pc = "new"
    /\ rules = <<>>
    /\ semanticRules = EmptyMap
    /\ ret = NotReturned
    /\ NoRun

NextTheme == Construct \/ Resolve \/ ResolveSemantic

SpecTheme == InitTheme /\ [][NextTheme]_vars

----------------------------------------------------------------------------
(* Properties of the theme resolver, checked under SpecTheme *)

\* "T equals S or T starts with S immediately followed by '.'"
PrefixOnBoundary(S, T) == T = S \/ startsWith(T, S \o ".")

\* the selectors of a rule list that match a scope: <<rule index, selector>>
MatchingIn(rs, scope) ==
    UNION { { <<k, ruleScopes(rs[k])[j]>> :
                j \in {x \in 1..Len(ruleScopes(rs[k])) :
                          PrefixOnBoundary(ruleScopes(rs[k])[x], scope)} } :
            k \in 1..Len(rs) }

LongestIn(M) == {m \in M : \A o \in M : Len(o[2]) <= Len(m[2])}

SetMax(S) == CHOOSE x \in S : \A y \in S : y <= x

Resolved == ret.op = "resolve"
MatchedScope == call.scopes[ret.value.matchedScopeIndex + 1]

OwnRules(f) == IF f.kind = "theme" /\ IsSome(f.tokenColors) THEN Get(f.tokenColors) ELSE <<>>

\* C3: at the matched stack position the returned style belongs to a rule
\* whose matching selector is the longest of all matching selectors; with
\* variable -> A and variable.parameter -> B in either order,
\* ["source.x", "variable.parameter.y"] resolves to B at index 1.
SpecificityWins ==
    Resolved =>
      /\ ret.value.matchedScopeIndex >= 0 =>
           \E m \in LongestIn(MatchingIn(rules, MatchedScope)) :
               rules[m[1]].settings = ret.value.color
      /\ ( /\ call.scopes = <<"source.x", "variable.parameter.y">>
           /\ Len(rules) = 2
           /\ {rules[1], rules[2]} =
                { ThemeRule(StringScope("variable"), ThemeColor(Some(ColorA), None)),
                  ThemeRule(StringScope("variable.parameter"), ThemeColor(Some(ColorB), None)) } )
         => ret.value = ThemeMatch(ThemeColor(Some(ColorB), None), 1)

SpecificityWitness ==
    /\ Resolved
    /\ call.scopes = <<"source.x", "variable.parameter.y">>
    /\ rules = << ThemeRule(StringScope("variable.parameter"), ThemeColor(Some(ColorB), None)),
                  ThemeRule(StringScope("variable"), ThemeColor(Some(ColorA), None)) >>
    /\ ret.value = ThemeMatch(ThemeColor(Some(ColorB), None), 1)

\* C4: resolve reports a match exactly when some selector equals a scope of
\* the stack or is a prefix of it that ends right before a '.'; the matched
\* position always has such a selector.
BoundarySafety ==
    Resolved =>
      /\ (ret.value.matchedScopeIndex # -1) <=>
           (\E i \in 1..Len(call.scopes) : MatchingIn(rules, call.scopes[i]) # {})
      /\ ret.value.matchedScopeIndex # -1 => MatchingIn(rules, MatchedScope) # {}

BoundaryWitness ==
    /\ Resolved
    /\ call.scopes = <<"var.something", "variable.parameter.y">>
    /\ rules = << ThemeRule(ArrayScope(<<"var", "variable.x">>), ThemeColor(None, Some("bold"))) >>
    /\ ret.value.matchedScopeIndex = 0

\* C5: the matched index is the greatest stack index that has a matching
\* selector, the style is one matched there, and without any match the
\* result is #D4D4D4 at index -1.
InnermostMatchWins ==
    Resolved =>
      LET P == {i \in 0..(Len(call.scopes) - 1) : MatchingIn(rules, call.scopes[i + 1]) # {}}
      IN  IF P = {}
          THEN ret.value = ThemeMatch(ThemeColor(Some(DefaultForeground), None), -1)
          ELSE /\ ret.value.matchedScopeIndex = SetMax(P)
               /\ \E m \in MatchingIn(rules, call.scopes[SetMax(P) + 1]) :
                      rules[m[1]].settings = ret.value.color

InnermostWitness ==
    /\ Resolved
    /\ call.scopes = <<"variable.parameter.y", "variable">>
    /\ rules = << ThemeRule(StringScope("variable.parameter"), ThemeColor(Some(ColorB), None)),
                  ThemeRule(StringScope("variable"), ThemeColor(Some(ColorA), None)) >>
    /\ ret.value = ThemeMatch(ThemeColor(Some(ColorA), None), 1)

\* C6: among the longest matching selectors the rule loaded last wins, and
\* the rules of an included base theme are loaded before the theme's own:
\* an own rule that ties with a base rule overrides it.
LastLoadedWinsTies ==
    LET theme == files[themePath]
        includesBase == theme.kind = "theme" /\ IsSome(theme.include)
        base == IF includesBase THEN OwnRules(files[Get(theme.include)]) ELSE <<>>
        own == OwnRules(theme)
    IN  /\ pc = "ready" => rules = base \o own
        /\ (Resolved /\ ret.value.matchedScopeIndex >= 0) =>
             LET longest == LongestIn(MatchingIn(base \o own, MatchedScope))
                 last == SetMax({m[1] : m \in longest})
             IN  ret.value.color = (base \o own)[last].settings

InheritanceWitness ==
    /\ Resolved
    /\ themePath = ChildPath
    /\ files[ChildPath].include = Some(BasePath)
    /\ OwnRules(files[BasePath]) = << ThemeRule(StringScope("variable"), ThemeColor(Some(ColorA), None)) >>
    /\ OwnRules(files[ChildPath]) =
         << ThemeRule(StringScope("variable"), ThemeColor(Some(ColorB), Some("italic"))) >>
    /\ call.scopes = <<"variable">>
    /\ ret.value = ThemeMatch(ThemeColor(Some(ColorB), Some("italic")), 0)

\* C9: resolveSemantic returns the "type.m" rule of the first modifier that
\* has one, else the "type" rule, else the "*.m" rule of the first modifier
\* that has one, else null.
SemanticPrecedence ==
    ret.op = "resolveSemantic" =>
      LET t == call.tokenType
          ms == call.modifiers
          present == DOMAIN semanticRules
          typed == {k \in 1..Len(ms) : (t \o "." \o ms[k]) \in present}
          wild == {k \in 1..Len(ms) : ("*." \o ms[k]) \in present}
          first(S) == CHOOSE k \in S : \A o \in S : k <= o
          key == IF typed # {} THEN Some(t \o "." \o ms[first(typed)])
                 ELSE IF t \in present THEN Some(t)
                 ELSE IF wild # {} THEN Some("*." \o ms[first(wild)])
                 ELSE None
      IN  IF IsSome(key)
          THEN /\ IsSome(ret.value)
               /\ Get(ret.value).foreground = Some("#" \o Get(key))
          ELSE ret.value = None

SemanticPrecedenceWitness ==
    /\ ret.op = "resolveSemantic"
    /\ call.tokenType = "variable"
    /\ call.modifiers = <<"readonly", "declaration">>
    /\ DOMAIN semanticRules = {"variable", "*.readonly", "variable.declaration"}
    /\ Get(ret.value).foreground = Some("#variable.declaration")

----------------------------------------------------------------------------
(* Inputs and actions of the style resolution specification *)

\* the legend of the test language server
DummyLegend == [tokenTypes |-> <<"variable", "function">>,
                tokenModifiers |-> <<"declaration", "readonly">>]

\* the data of the test language server
DummyData == <<0, 9, 5, 1, 0, 1, 4, 4, 0, 1>>

SemTuples ==
    { <<deltaLine, deltaStart>> \o rest :
        deltaLine \in {0, 1}, deltaStart \in {0, 2},
        rest \in { <<5, 1, 0>>, <<4, 0, 1>>, <<1, 0, 3>>, <<2, 2, 2>>, <<1, 1, 4>>, <<3, 30, 0>> } }

RECURSIVE flatten(_)
flatten(tuples) == IF tuples = <<>> THEN <<>> ELSE Head(tuples) \o flatten(Tail(tuples))

IsParseCall ==
    \/ \E ts \in SeqsUpTo(SemTuples, MaxSemTokens), l \in {None, Some(DummyLegend)} :
         call = [op |-> "parseSemanticTokens", tokens |-> Some([data |-> flatten(ts)]),
                 legend |-> l]
    \/ call = [op |-> "parseSemanticTokens", tokens |-> Some([data |-> DummyData]),
               legend |-> Some(DummyLegend)]
    \/ call = [op |-> "parseSemanticTokens", tokens |-> None, legend |-> Some(DummyLegend)]

StyleRules ==
    << ThemeRule(StringScope("keyword.control"), ThemeColor(Some("#C586C0"), None)),
       ThemeRule(StringScope("variable"), ThemeColor(Some("#9CDCFE"), None)),
       ThemeRule(StringScope("variable.other.constant"), ThemeColor(Some("#4FC1FF"), None)),
       ThemeRule(StringScope("entity.name.function"), ThemeColor(Some("#DCDCAA"), None)),
       ThemeRule(StringScope("support.function"), ThemeColor(None, Some("italic"))),
       ThemeRule(ArrayScope(<<"meta.attribute", "source.attribute">>),
                 ThemeColor(Some("#808080"), Some("bold"))) >>

StyleSemKeys == {"macro", "modifier", "variable", "variable.readonly", "*.readonly", "label"}

IsStyleTheme ==
    \E tc \in {<<>>, StyleRules}, keys \in SUBSET StyleSemKeys :
      files = OneTheme(ThemeFile(None, Some(tc), Some([k \in keys |-> SemValue(k)])),
                       MissingFile)

StyleStacks ==
    { <<"source.x">>, <<"source.x", "meta.attribute.x">>, <<"source.attribute.foo">>,
      <<"source.x", "variable.other.x">> }

StyleTypes == {"variable", "macro", "modifier", "function", "label", "number"}
StyleModifiers == {"readonly", "defaultLibrary", "declaration"}

StyleModifierLists ==
    {ms \in SeqsUpTo(StyleModifiers, MaxModifiers) :
        \A i, j \in 1..Len(ms) : i # j => ms[i] # ms[j]}

IsResolveStyleCall ==
    \E tm \in StyleStacks :
      \/ call = [op |-> "resolveStyle", state |-> TokenInputState(tm, None)]
      \/ \E t \in StyleTypes, ms \in StyleModifierLists :
           call = [op |-> "resolveStyle",
                   state |-> TokenInputState(tm, Some([type |-> t, modifiers |-> ms]))]

\* merger.parseSemanticTokens(tokens, legend)
ParseSemanticTokens ==
    /\ pc = "ready"
    /\ call.op = "parseSemanticTokens"
    /\ ret' = [op |-> "parseSemanticTokens",
               value |-> parseSemanticTokens(call.tokens, call.legend)]
    /\ UNCHANGED <<files, themePath, pc, rules, semanticRules, call, runVars>>

\* merger.resolveStyle(state)
ResolveStyle ==
    /\ pc = "ready"
    /\ call.op = "resolveStyle"
    /\ ret' = [op |-> "resolveStyle", value |-> resolveStyle(rules, semanticRules, call.state)]
    /\ UNCHANGED <<files, themePath, pc, rules, semanticRules, call, runVars>>

InitStyle ==
    /\ \/ IsStyleTheme /\ IsResolveStyleCall
       \/ files = OneTheme(MissingFile, MissingFile) /\ IsParseCall
    /\ themePath = ChildPath
    /\ pc = "new"
    /\ rules = <<>>
    /\ semanticRules = EmptyMap
    /\ ret = NotReturned
    /\ NoRun

NextStyle == Construct \/ ParseSemanticTokens \/ ResolveStyle

SpecStyle == InitStyle /\ [][NextStyle]_vars

----------------------------------------------------------------------------
(* Properties of semantic decoding and style resolution, checked under SpecStyle *)

RECURSIVE flattenLines(_, _)
flattenLines(map, lines) ==
    IF lines = {} THEN <<>>
    ELSE LET l == CHOOSE x \in lines : \A y \in lines : x <= y
         IN  [n \in 1..Len(map[l]) |-> [line |-> l, token |-> map[l][n]]]
             \o flattenLines(map, lines \ {l})

\* the decoded tokens in the order of their lines
Decoded == flattenLines(ret.value, DOMAIN ret.value)

\* C7: the data array is decoded in 5-tuples with a running cursor: the line
\* is the previous line plus deltaLine, the start is the tuple's start on a
\* new line and the previous start plus the tuple's start on the same line,
\* the span is [start, start + length), the type and the modifiers come from
\* the legend; the test server's data decodes to (0, 9..14, function) and
\* (1, 4..8, variable, [declaration]).
DeltaDecoding ==
    (ret.op = "parseSemanticTokens" /\ IsSome(call.tokens)) =>
      LET data == Get(call.tokens).data
          field(j, f) == data[5 * (j - 1) + f]
      IN  /\ Len(Decoded) = Len(data) \div 5
          /\ \A j \in 1..Len(Decoded) :
               LET prevLine == IF j = 1 THEN 0 ELSE Decoded[j - 1].line
                   prevStart == IF j = 1 THEN 0 ELSE Decoded[j - 1].token.start
                   tok == Decoded[j].token
               IN  /\ Decoded[j].line = prevLine + field(j, 1)
                   /\ tok.start = IF field(j, 1) > 0 THEN field(j, 2)
                                  ELSE prevStart + field(j, 2)
                   /\ tok.end = tok.start + field(j, 3)
                   /\ IsSome(call.legend) =>
                        LET types == Get(call.legend).tokenTypes
                            names == Get(call.legend).tokenModifiers
                            set == {i \in 1..Len(names) :
                                      (field(j, 5) % (2 ^ i)) >= 2 ^ (i - 1)}
                        IN  /\ field(j, 4) < Len(types) => tok.type = types[field(j, 4) + 1]
                            /\ {tok.modifiers[n] : n \in 1..Len(tok.modifiers)}
                                 = {names[i] : i \in set}
                            /\ Len(tok.modifiers) = Cardinality(set)
                            /\ \A a, b \in 1..Len(tok.modifiers) :
                                 a < b => \E x, y \in set :
                                            /\ x < y
                                            /\ names[x] = tok.modifiers[a]
                                            /\ names[y] = tok.modifiers[b]

DeltaDecodingWitness ==
    /\ ret.op = "parseSemanticTokens"
    /\ call.tokens = Some([data |-> DummyData])
    /\ call.legend = Some(DummyLegend)
    /\ ret.value = (0 :> <<SemToken(9, 14, "function", <<>>)>>)
                   @@ (1 :> <<SemToken(4, 8, "variable", <<"declaration">>)>>)

StyleResolved == ret.op = "resolveStyle" /\ IsSome(call.state.semantic)

HasAttributeScope ==
    \E i \in 1..Len(call.state.tmScopes) : includes(call.state.tmScopes[i], "attribute")

\* C8: a character of semantic type "macro" whose lexical scope stack has an
\* entry containing "attribute" is resolved as type "modifier": trace entry 0,
\* the explicit rule and the fallback table are those of "modifier"; without
\* such a scope the type stays "macro".
MacroCorrection ==
    (StyleResolved /\ Get(call.state.semantic).type = "macro") =>
      LET ms == Get(call.state.semantic).modifiers
          asType(t) == resolveStyle(rules, semanticRules,
                                    TokenInputState(call.state.tmScopes,
                                                    Some([type |-> t, modifiers |-> ms])))
      IN  IF HasAttributeScope
          THEN /\ ret.value.scopes[1] = "modifier"
               /\ ret.value = asType("modifier")
               /\ (ms = <<>> /\ "modifier" \in DOMAIN semanticRules)
                    => ret.value.foreground = "#modifier"
               /\ (ms = <<>> /\ "modifier" \notin DOMAIN semanticRules)
                    => ret.value.scopes[2] = "(fallback to standard scope: keyword.control)"
          ELSE /\ ret.value.scopes[1] = "macro"
               /\ (ms = <<>> /\ "macro" \in DOMAIN semanticRules)
                    => ret.value.foreground = "#macro"

MacroCorrectionWitness ==
    /\ StyleResolved
    /\ call.state = TokenInputState(<<"source.attribute.foo">>,
                                    Some([type |-> "macro", modifiers |-> <<>>]))
    /\ DOMAIN semanticRules = {"macro", "modifier"}
    /\ ret.value.scopes[1] = "modifier"
    /\ ret.value.foreground = "#modifier"

\* C10: with a semantic classification the colour comes from one tier: the
\* explicit semantic rule if there is one; otherwise the fallback table
\* entry, looked up as type.defaultLibrary.readonly, type.readonly,
\* type.defaultLibrary, type (a suffix only when its modifier is present) and
\* resolved by the scope matcher; otherwise the scope matcher on the lexical
\* scope stack.
TierOrder ==
    StyleResolved =>
      LET tmScopes == call.state.tmScopes
          given == Get(call.state.semantic).type
          type == IF given = "macro" /\ HasAttributeScope THEN "modifier" ELSE given
          ms == Get(call.state.semantic).modifiers
          has(m) == \E n \in 1..Len(ms) : ms[n] = m
          dl == IF has("defaultLibrary") THEN ".defaultLibrary" ELSE ""
          ro == IF has("readonly") THEN ".readonly" ELSE ""
          keys == <<type \o dl \o ro, type \o ro, type \o dl, type>>
          populated == {n \in 1..4 : keys[n] \in DOMAIN STANDARD_TOKEN_MAP}
          firstKey == keys[CHOOSE n \in populated : \A o \in populated : n <= o]
          explicit == resolveSemantic(semanticRules, type, ms)
          tier == IF IsSome(explicit) THEN Get(explicit)
                  ELSE IF populated # {} THEN resolve(rules, STANDARD_TOKEN_MAP[firstKey]).color
                  ELSE resolve(rules, tmScopes).color
      IN  /\ ret.value.foreground =
               (IF IsSome(tier.foreground) /\ Get(tier.foreground) # ""
                THEN Get(tier.foreground) ELSE DefaultForeground)
          /\ ret.value.fontStyle = tier.fontStyle

TierOrderWitness ==
    /\ StyleResolved
    /\ call.state = TokenInputState(<<"source.x", "variable.other.x">>,
                                    Some([type |-> "variable", modifiers |-> <<"readonly">>]))
    /\ rules = StyleRules
    /\ DOMAIN semanticRules = {"macro"}
    /\ ret.value.foreground = "#4FC1FF"

\* the type of the character after the macro correction, and its modifiers
StyleType ==
    LET given == Get(call.state.semantic).type
    IN  IF given = "macro" /\ HasAttributeScope THEN "modifier" ELSE given

StyleMods == Get(call.state.semantic).modifiers

TypedRule ==
    \/ StyleType \in DOMAIN semanticRules
    \/ \E n \in 1..Len(StyleMods) : (StyleType \o "." \o StyleMods[n]) \in DOMAIN semanticRules

WildcardRules == {n \in 1..Len(StyleMods) : ("*." \o StyleMods[n]) \in DOMAIN semanticRules}

\* the only semantic theme rules that match the character are "*.modifier" rules
WildcardOnly == StyleResolved /\ ~TypedRule /\ WildcardRules # {}

HintEntries(prefix) ==
    {i \in 0..(Len(ret.value.scopes) - 1) : startsWith(ret.value.scopes[i + 1], prefix)}

\* C19 as stated: a character whose only matching semantic rule is a wildcard
\* rule is not resolved by the explicit tier (matched index 0) but goes on to
\* the fallback table and the lexical fallback.
ExplicitTierSkipsWildcard ==
    WildcardOnly =>
      /\ ret.value.activeScopeIndex # 0
      /\ HintEntries("(fallback") # {}

\* C19 as amended: the explicit tier consults "type.modifier", then "type",
\* then the wildcard "*.modifier" rules; a character whose only matching
\* semantic rule is a wildcard rule takes that rule's style with matched
\* index 0 and never reaches the fallback table or the lexical fallback.
ExplicitTierUsesWildcard ==
    /\ WildcardOnly =>
         LET first == CHOOSE n \in WildcardRules : \A o \in WildcardRules : n <= o
             rule == semanticRules["*." \o StyleMods[first]]
         IN  /\ ret.value.activeScopeIndex = 0
             /\ ret.value.foreground = orDefault(rule.foreground)
             /\ ret.value.fontStyle = rule.fontStyle
             /\ ret.value.source = "semantic"
             /\ HintEntries("(fallback") = {}
    /\ (StyleResolved /\ TypedRule) =>
         /\ ret.value.activeScopeIndex = 0
         /\ HintEntries("(fallback") = {}
    /\ (StyleResolved /\ ~TypedRule /\ WildcardRules = {}) =>
         Cardinality(HintEntries("(fallback")) = 1

WildcardWitness ==
    /\ StyleResolved
    /\ call.state = TokenInputState(<<"source.x", "variable.other.x">>,
                                    Some([type |-> "function", modifiers |-> <<"readonly">>]))
    /\ rules = StyleRules
    /\ DOMAIN semanticRules = {"*.readonly", "variable"}
    /\ ret.value.foreground = "#*.readonly"
    /\ ret.value.activeScopeIndex = 0

\* the populated fallback table keys of the character, in lookup order
TableKeys ==
    LET has(m) == \E n \in 1..Len(StyleMods) : StyleMods[n] = m
        dl == IF has("defaultLibrary") THEN ".defaultLibrary" ELSE ""
        ro == IF has("readonly") THEN ".readonly" ELSE ""
        keys == <<StyleType \o dl \o ro, StyleType \o ro, StyleType \o dl, StyleType>>
    IN  SelectSeq(keys, LAMBDA k : k \in DOMAIN STANDARD_TOKEN_MAP)

\* C20: activeScopeIndex names the trace entry of the tier that gave the
\* colour: 0 for an explicit semantic rule; the "(fallback to standard
\* scope: ...)" entry for the fallback table; for the lexical fallback the
\* index of the first lexical scope in the trace plus the scope matcher's
\* index, or -1 when it matched nothing.  Without a semantic classification
\* it is the scope matcher's index into the scope stack.
ActiveIndexNamesTier ==
    ret.op = "resolveStyle" =>
      LET m == resolve(rules, call.state.tmScopes).matchedScopeIndex
          idx == ret.value.activeScopeIndex
      IN  IF ~IsSome(call.state.semantic)
          THEN idx = m /\ ret.value.scopes = call.state.tmScopes
          ELSE LET sep == HintEntries("__TM_SCOPES__")
                   firstLexical == (CHOOSE i \in sep : TRUE) + 1
               IN  /\ Cardinality(sep) = 1
                   /\ SubSeq(ret.value.scopes, firstLexical + 1, Len(ret.value.scopes))
                        = call.state.tmScopes
                   /\ IF TypedRule \/ WildcardRules # {}
                      THEN idx = 0
                      ELSE IF Len(TableKeys) > 0
                      THEN /\ HintEntries("(fallback to standard scope: ") = {idx}
                           /\ idx < firstLexical - 1
                      ELSE idx = (IF m = -1 THEN -1 ELSE firstLexical + m)

ActiveIndexWitness ==
    /\ StyleResolved
    /\ call.state = TokenInputState(<<"source.x", "variable.other.x">>,
                                    Some([type |-> "label", modifiers |-> <<"readonly">>]))
    /\ rules = StyleRules
    /\ DOMAIN semanticRules = {"macro"}
    /\ ret.value.scopes = <<"label", "modifiers: readonly", "(fallback to TextMate color)",
                            "__TM_SCOPES__", "source.x", "variable.other.x">>
    /\ ret.value.activeScopeIndex = 5

\* the elements of a list from the n-th on, each preceded by a separator
RECURSIVE Listed(_, _, _)
Listed(list, n, sep) ==
    IF n > Len(list) THEN "" ELSE sep \o list[n] \o Listed(list, n + 1, sep)

\* the trace entries that come before the separator
SemanticEntries ==
    LET candidates == STANDARD_TOKEN_MAP[TableKeys[1]]
    IN  <<StyleType>>
        \o (IF StyleMods # <<>>
            THEN <<"modifiers: " \o StyleMods[1] \o Listed(StyleMods, 2, ",")>>
            ELSE <<>>)
        \o (IF TypedRule \/ WildcardRules # {} THEN <<>>
            ELSE IF Len(TableKeys) > 0
            THEN <<"(fallback to standard scope: " \o candidates[1]
                     \o Listed(candidates, 2, ", ") \o ")">>
            ELSE <<"(fallback to TextMate color)">>)

\* C21: the trace of a character with a semantic classification is, in this
\* order: the corrected semantic type; a "modifiers: ..." entry exactly when
\* there are modifiers; a fallback hint exactly when no explicit semantic rule
\* was found (the standard-scope hint when the fallback table has an entry,
\* the TextMate hint otherwise); one "__TM_SCOPES__" separator; the whole
\* lexical scope stack in its order.  Every entry has its tooltip colour.
TraceLayout ==
    StyleResolved =>
      /\ ret.value.scopes = SemanticEntries \o <<"__TM_SCOPES__">> \o call.state.tmScopes
      /\ Len(ret.value.scopeColors) = Len(ret.value.scopes)

TraceLayoutWitness ==
    /\ StyleResolved
    /\ call.state = TokenInputState(<<"source.x", "variable.other.x">>,
                                    Some([type |-> "function",
                                          modifiers |-> <<"declaration", "defaultLibrary">>]))
    /\ DOMAIN semanticRules = {"variable"}
    /\ ret.value.scopes = <<"function", "modifiers: declaration,defaultLibrary",
                            "(fallback to standard scope: support.function)",
                            "__TM_SCOPES__", "source.x", "variable.other.x">>

\* no explicit semantic rule applies to the character
NoExplicitRule == StyleResolved /\ ~TypedRule /\ WildcardRules = {}

\* C22 as stated: source names the mechanism that gave the colour:
\* "semantic" for an explicit semantic rule or the fallback table, "textmate"
\* for the scope matcher on the lexical scope stack, also when the character
\* has a semantic classification and falls through to the lexical tier.
ProvenanceNamesMechanism ==
    ret.op = "resolveStyle" =>
      ret.value.source =
        (IF ~IsSome(call.state.semantic) THEN "textmate"
         ELSE IF NoExplicitRule /\ Len(TableKeys) = 0 THEN "textmate"
         ELSE "semantic")

\* the candidate selectors of the character's table entry that a theme rule
\* matches
MatchedCandidates ==
    LET candidates == STANDARD_TOKEN_MAP[TableKeys[1]]
    IN  {n \in 1..Len(candidates) : MatchingIn(rules, candidates[n]) # {}}

\* C30: without an explicit semantic rule, a type with a fallback table
\* entry never takes its colour from the lexical scope stack: the style is
\* that of the last candidate selector a theme rule matches, or the default
\* foreground when none is matched, and activeScopeIndex is the
\* standard-scope hint; the TextMate hint appears only without a table entry.
StandardTierShadowsLexical ==
    NoExplicitRule =>
      LET hints == HintEntries("(fallback to standard scope: ")
      IN  IF Len(TableKeys) > 0
          THEN LET candidates == STANDARD_TOKEN_MAP[TableKeys[1]]
                   color == IF MatchedCandidates = {}
                            THEN ThemeColor(Some(DefaultForeground), None)
                            ELSE resolve(rules, <<candidates[SetMax(MatchedCandidates)]>>).color
               IN  /\ ret.value.foreground = orDefault(color.foreground)
                   /\ ret.value.fontStyle = color.fontStyle
                   /\ hints = {ret.value.activeScopeIndex}
                   /\ HintEntries("(fallback to TextMate color)") = {}
          ELSE /\ hints = {}
               /\ Cardinality(HintEntries("(fallback to TextMate color)")) = 1

StandardTierWitness ==
    /\ StyleResolved
    /\ call.state = TokenInputState(<<"source.x", "variable.other.x">>,
                                    Some([type |-> "number", modifiers |-> <<>>]))
    /\ rules = StyleRules
    /\ DOMAIN semanticRules = {"macro"}
    /\ resolve(rules, call.state.tmScopes).matchedScopeIndex = 1
    /\ ret.value.foreground = DefaultForeground
    /\ ret.value.scopes[2] = "(fallback to standard scope: constant.numeric)"
    /\ ret.value.activeScopeIndex = 1

----------------------------------------------------------------------------
(* Inputs and actions of the merge specification *)

RECURSIVE StringsOfLen(_, _)
StringsOfLen(alphabet, n) ==
    IF n = 0 THEN {""} ELSE {s \o c : s \in StringsOfLen(alphabet, n - 1), c \in alphabet}

Strings(alphabet, n) == UNION {StringsOfLen(alphabet, k) : k \in 0..n}

SafeStack == <<"source.x">>
CommentStack == <<"source.x", "comment.line.x">>
StringStack == <<"source.x", "string.quoted.x">>
EmbeddedStack == <<"source.x", "string.quoted.x", "meta.embedded.x">>
RegexStack == <<"source.x", "string.regexp.x">>
InterpolationStack == <<"source.x", "string.quoted.x", "meta.interpolation.x">>
CommentEmbeddedStack == <<"source.x", "comment.block.x", "meta.embedded.x">>

\* tokenizer output: one token over every non-empty line
RECURSIVE uniformTokens(_, _, _)
uniformTokens(lines, i, scopes) ==
    IF i >= Len(lines) THEN <<>>
    ELSE (IF Len(lines[i + 1]) > 0
          THEN <<TmToken(i, 0, Len(lines[i + 1]), scopes)>>
          ELSE <<>>)
         \o uniformTokens(lines, i + 1, scopes)

\* tokenizer output: the first character of a line and the rest of it
RECURSIVE headTailTokens(_, _, _, _)
headTailTokens(lines, i, head, tail) ==
    IF i >= Len(lines) THEN <<>>
    ELSE (IF Len(lines[i + 1]) > 0 THEN <<TmToken(i, 0, 1, head)>> ELSE <<>>)
         \o (IF Len(lines[i + 1]) > 1 THEN <<TmToken(i, 1, Len(lines[i + 1]), tail)>> ELSE <<>>)
         \o headTailTokens(lines, i + 1, head, tail)

\* a token list that leaves the first character of a line uncovered and
\* runs one past its end
RECURSIVE overlongTokens(_, _, _)
overlongTokens(lines, i, scopes) ==
    IF i >= Len(lines) THEN <<>>
    ELSE (IF Len(lines[i + 1]) > 0
          THEN <<TmToken(i, 1, Len(lines[i + 1]) + 1, scopes)>>
          ELSE <<>>)
         \o overlongTokens(lines, i + 1, scopes)

Tokenizations(content, uniform, split) ==
    {uniformTokens(splitLines(content), 0, s) : s \in uniform}
    \cup {headTailTokens(splitLines(content), 0, p[1], p[2]) : p \in split}
    \cup {overlongTokens(splitLines(content), 0, SafeStack)}

MergeTheme ==
    ThemeFile(None,
              Some(<< ThemeRule(StringScope("comment"), ThemeColor(Some("#6A9955"), Some("italic"))),
                      ThemeRule(StringScope("string"), ThemeColor(Some("#CE9178"), None)),
                      ThemeRule(StringScope("entity.name.function"), ThemeColor(Some("#DCDCAA"), None)) >>),
              Some([k \in {"variable"} |-> [kind |-> "string", value |-> "#9CDCFE"]]))

MergeCall(content, tmTokens, semanticTokens, legend) ==
    [op |-> "merge", content |-> content, tmTokens |-> tmTokens,
     semanticTokens |-> semanticTokens, legend |-> legend]

MergeSemTuples ==
    { <<0, 0, 1, 0, 0>>, <<0, 1, 2, 1, 2>>, <<1, 0, 2, 0, 0>> }

\* call is a merge of a text with brackets under varying lexical scopes,
\* without semantic tokens
IsBracketCall ==
    \E content \in Strings({"a", "(", ")", "[", "]", "\n"}, MaxContent) :
      \E tm \in Tokenizations(content,
                              {SafeStack, EmbeddedStack, RegexStack, InterpolationStack},
                              {<<SafeStack, CommentStack>>, <<StringStack, SafeStack>>,
                               <<SafeStack, CommentEmbeddedStack>>}) :
        call = MergeCall(content, tm, None, Some(DummyLegend))

\* call is a merge of a text with semantic tokens laid over it
IsSemanticCall ==
    \E content \in Strings({"a", "(", "\n"}, MaxContent) :
      \E tm \in Tokenizations(content, {SafeStack}, {<<SafeStack, CommentStack>>}) :
        \E ts \in SeqsUpTo(MergeSemTuples, MaxMergeSemTokens) :
          call = MergeCall(content, tm, Some([data |-> flatten(ts)]), Some(DummyLegend))

\* merger.merge(content, tmTokens, semanticTokens, legend)
Merge ==
    /\ pc = "ready"
    /\ call.op = "merge"
    /\ LET output == mergeOutput(rules, semanticRules, call.content, call.tmTokens,
                                 call.semanticTokens, call.legend)
       IN  ret' = [op |-> "merge",
                   output |-> output,
                   stack |-> bracketStack(output),
                   value |-> merge(rules, semanticRules, call.content, call.tmTokens,
                                   call.semanticTokens, call.legend)]
    /\ UNCHANGED <<files, themePath, pc, rules, semanticRules, call, runVars>>

InitMerge ==
    /\ files = OneTheme(MergeTheme, MissingFile)
    /\ IsBracketCall \/ IsSemanticCall
    /\ themePath = ChildPath
    /\ pc = "new"
    /\ rules = <<>>
    /\ semanticRules = EmptyMap
    /\ ret = NotReturned
    /\ NoRun

NextMerge == Construct \/ Merge

SpecMerge == InitMerge /\ [][NextMerge]_vars

----------------------------------------------------------------------------
(* Properties of merge, checked under SpecMerge *)

Merged == ret.op = "merge"

\* the ranges of one line, in output order
LineRanges(ranges, i) == SelectSeq(ranges, LAMBDA r : r.startLine = i)

PartitionsLine(ranges, L) ==
    IF L = 0
    THEN Len(ranges) = 1 /\ ranges[1].startChar = 0 /\ ranges[1].endChar = 0
    ELSE /\ Len(ranges) >= 1
         /\ ranges[1].startChar = 0
         /\ ranges[Len(ranges)].endChar = L
         /\ \A k \in 1..Len(ranges) : ranges[k].startChar < ranges[k].endChar
         /\ \A k \in 2..Len(ranges) : ranges[k].startChar = ranges[k - 1].endChar

\* C1: the ranges merge returns, after the bracket pass, partition every
\* line: on a line of length L > 0 they start at 0, end at L, each starts
\* where the previous one ends and none is empty; a line of length 0 has
\* exactly one range, 0..0.  No range lies on a line the text does not have,
\* and the lines come in order.
Partition ==
    Merged =>
      LET lines == splitLines(call.content)
      IN  /\ \A i \in 0..(Len(lines) - 1) :
                PartitionsLine(LineRanges(ret.value, i), Len(lines[i + 1]))
          /\ \A k \in 1..Len(ret.value) :
                /\ ret.value[k].startLine \in 0..(Len(lines) - 1)
                /\ ret.value[k].endLine = ret.value[k].startLine
          /\ \A k \in 2..Len(ret.value) :
                ret.value[k - 1].startLine <= ret.value[k].startLine

PartitionWitness ==
    /\ Merged
    /\ call.content = "(a\n"
    /\ call.tmTokens = <<TmToken(0, 0, 2, SafeStack)>>
    /\ Len(ret.value) = 3
    /\ ret.value[1].text = "(" /\ ret.value[1].endChar = 1
    /\ ret.value[2].text = "a" /\ ret.value[2].startChar = 1 /\ ret.value[2].endChar = 2
    /\ ret.value[3].startLine = 1 /\ ret.value[3].endChar = 0

\* "identical resolved style": foreground, fontStyle, source,
\* activeScopeIndex and scopes
SameStyle(a, b) ==
    /\ a.foreground = b.foreground
    /\ a.fontStyle = b.fontStyle
    /\ a.source = b.source
    /\ a.activeScopeIndex = b.activeScopeIndex
    /\ a.scopes = b.scopes

\* the pairs of neighbours on one line that have an identical style
AdjacentIdentical(ranges) ==
    {k \in 2..Len(ranges) :
        /\ ranges[k - 1].startLine = ranges[k].startLine
        /\ SameStyle(ranges[k - 1], ranges[k])}

\* a one-character range the bracket pass emitted for a bracket
IsBracketRange(r) ==
    /\ isBracket(r.text)
    /\ Len(r.scopes) > 0
    /\ r.scopes[Len(r.scopes)] = "bracket-pair-colorization"
    /\ r.activeScopeIndex = Some(Len(r.scopes) - 1)

\* C2 as stated: in the final range list no two adjacent ranges of a line
\* have an identical style.
NoAdjacentIdenticalStyles == Merged => AdjacentIdentical(ret.value) = {}

\* C2 as amended: the ranges merge builds before the bracket pass have no
\* two neighbours of identical style on a line, and in the final list two
\* neighbours of a line have an identical style only when one of them is a
\* one-bracket range emitted by the bracket pass.
NoAdjacentIdenticalUnlessBracket ==
    Merged =>
      /\ AdjacentIdentical(ret.output) = {}
      /\ \A k \in AdjacentIdentical(ret.value) :
            IsBracketRange(ret.value[k - 1]) \/ IsBracketRange(ret.value[k])

CompressionWitness ==
    /\ Merged
    /\ call.content = "a()"
    /\ call.tmTokens = <<TmToken(0, 0, 3, SafeStack)>>
    /\ Len(ret.output) = 1
    /\ Len(ret.value) = 3
    /\ ret.value[1].text = "a"
    /\ ~SameStyle(ret.value[1], ret.value[2])
    /\ SameStyle(ret.value[2], ret.value[3])

----------------------------------------------------------------------------
(* Properties of the bracket pass, checked under SpecMerge *)

\* the one-bracket ranges of a range list, in output order
BracketRanges(ranges) == SelectSeq(ranges, IsBracketRange)

\* the range the lines were compressed to that a final range was cut from
SourceRange(r) ==
    CHOOSE o \in {ret.output[k] : k \in 1..Len(ret.output)} :
        /\ o.startLine = r.startLine
        /\ o.startChar <= r.startChar
        /\ r.endChar <= o.endChar

Pairs(open, close) == <<open, close>> \in {<<"(", ")">>, <<"[", "]">>, <<"{", "}">>}

\* the openers still pending after the first n brackets of a document: an
\* opener is pushed, a closer pops the opener it pairs with, any other
\* closer changes nothing
RECURSIVE Pending(_, _)
Pending(chars, n) ==
    IF n = 0 THEN <<>>
    ELSE LET p == Pending(chars, n - 1)
             c == chars[n]
         IN  IF c \in {"(", "[", "{"} THEN Append(p, c)
             ELSE IF Len(p) > 0 /\ Pairs(p[Len(p)], c) THEN SubSeq(p, 1, Len(p) - 1)
             ELSE p

Palette(d) == getBracketColors[(d % 3) + 1]

\* the palette colour the n-th bracket is due, None for a closer that pairs
\* with nothing
DueColor(chars, n) ==
    LET p == Pending(chars, n - 1)
        c == chars[n]
    IN  IF c \in {"(", "[", "{"} THEN Some(Palette(Len(p)))
        ELSE IF Len(p) > 0 /\ Pairs(p[Len(p)], c) THEN Some(Palette(Len(p) - 1))
        ELSE None

Texts(ranges) == [k \in 1..Len(ranges) |-> ranges[k].text]

Without(seq, n) == SubSeq(seq, 1, n - 1) \o SubSeq(seq, n + 1, Len(seq))

UniformSafe(content) == call.tmTokens = uniformTokens(splitLines(content), 0, SafeStack)

\* C11: an opening bracket met at stack depth d is coloured palette[d mod 3]
\* and pushed; a closing bracket that pairs with the top of the stack pops it
\* and is coloured palette[d' mod 3], d' the depth after the pop.  "(()" in a
\* safe scope gives gold, orchid, orchid.
BracketDepthColoring ==
    Merged =>
      LET bs == BracketRanges(ret.value)
          chars == Texts(bs)
      IN  /\ \A n \in 1..Len(bs) :
                IsSome(DueColor(chars, n)) => bs[n].foreground = Get(DueColor(chars, n))
          /\ ret.stack = Pending(chars, Len(chars))
          /\ (call.content = "(()" /\ UniformSafe("(()")) =>
                /\ Len(ret.value) = 3
                /\ ret.value[1].foreground = "#FFD700"
                /\ ret.value[2].foreground = "#DA70D6"
                /\ ret.value[3].foreground = "#DA70D6"
                /\ ret.stack = <<"(">>

BracketDepthWitness ==
    /\ Merged
    /\ call.content = "(()"
    /\ UniformSafe("(()")
    /\ Texts(ret.value) = <<"(", "(", ")">>
    /\ ret.value[3].foreground = "#DA70D6"

\* C12: a closing bracket that finds the stack empty, or an opener on top
\* that it does not pair with, keeps the foreground of the range it was cut
\* from and leaves the stack alone: every later bracket has the colour it
\* has in the document without that bracket, and so has the final stack.
UnmatchedClosingKept ==
    Merged =>
      LET bs == BracketRanges(ret.value)
          chars == Texts(bs)
      IN  \A n \in 1..Len(bs) :
            DueColor(chars, n) = None =>
              /\ bs[n].foreground = SourceRange(bs[n]).foreground
              /\ ret.stack = Pending(Without(chars, n), Len(chars) - 1)
              /\ \A j \in (n + 1)..Len(bs) :
                    LET due == DueColor(Without(chars, n), j - 1)
                    IN  IF IsSome(due)
                        THEN bs[j].foreground = Get(due)
                        ELSE bs[j].foreground = SourceRange(bs[j]).foreground

UnmatchedClosingWitness ==
    /\ Merged
    /\ call.content = "(])"
    /\ UniformSafe("(])")
    /\ Texts(ret.value) = <<"(", "]", ")">>
    /\ ret.value[2].foreground = DefaultForeground
    /\ ret.value[3].foreground = "#FFD700"
    /\ ret.stack = <<>>

LineOf(r) == r.startLine

\* C13: the stack starts empty in every merge call and is not reset at a
\* line boundary: the first bracket of a call is coloured at depth 0, a
\* bracket on a later line is coloured by the openers still pending from all
\* earlier lines, and a closer pairs with an opener of an earlier line.
StackSpansLines ==
    Merged =>
      LET bs == BracketRanges(ret.value)
          chars == Texts(bs)
      IN  /\ Len(bs) > 0 =>
                IF chars[1] \in {"(", "[", "{"}
                THEN bs[1].foreground = "#FFD700"
                ELSE bs[1].foreground = SourceRange(bs[1]).foreground
          /\ \A n \in 2..Len(bs) :
                LET earlier == {k \in 1..(n - 1) : LineOf(bs[k]) < LineOf(bs[n])}
                    carried == Pending(chars, Cardinality(earlier))
                    onLine == SubSeq(chars, Cardinality(earlier) + 1, n)
                IN  (LineOf(bs[n]) > LineOf(bs[1]) /\ Len(onLine) = 1) =>
                      IF chars[n] \in {"(", "[", "{"}
                      THEN bs[n].foreground = Palette(Len(carried))
                      ELSE IF Len(carried) > 0 /\ Pairs(carried[Len(carried)], chars[n])
                      THEN bs[n].foreground = Palette(Len(carried) - 1)
                      ELSE bs[n].foreground = SourceRange(bs[n]).foreground

StackSpansLinesWitness ==
    /\ Merged
    /\ call.content = "(\n("
    /\ UniformSafe("(\n(")
    /\ Len(ret.value) = 2
    /\ ret.value[2].startLine = 1
    /\ ret.value[2].foreground = "#DA70D6"
    /\ ret.stack = <<"(", "(">>

\* "safe": no trace entry contains comment, none contains regex, and none
\* contains string unless one contains embedded or interpolation
SafeTrace(scopes) ==
    LET names(sub) == \E i \in 1..Len(scopes) : includes(scopes[i], sub)
    IN  /\ ~names("comment")
        /\ ~names("regex")
        /\ ~names("string") \/ names("embedded") \/ names("interpolation")

HasBracket(text) == \E i \in 1..Len(text) : isBracket(SubSeq(text, i, i))

\* the brackets of the safe ranges of a range list, in order
RECURSIVE SafeBrackets(_, _)
SafeBrackets(ranges, n) ==
    IF n > Len(ranges) THEN <<>>
    ELSE (IF SafeTrace(ranges[n].scopes)
          THEN [k \in 1..Len(bracketMatches(ranges[n].text, 0)) |->
                   SubSeq(ranges[n].text, bracketMatches(ranges[n].text, 0)[k] + 1,
                          bracketMatches(ranges[n].text, 0)[k] + 1)]
          ELSE <<>>)
         \o SafeBrackets(ranges, n + 1)

InSeq(x, seq) == \E k \in 1..Len(seq) : seq[k] = x

\* C14: a range is scanned for brackets exactly when its trace is safe.  A
\* range that is not safe is emitted unchanged and its brackets do not touch
\* the stack; every bracket of a safe range becomes a range of its own.
UnsafeRangesUntouched ==
    Merged =>
      /\ \A k \in 1..Len(ret.output) :
            LET o == ret.output[k]
            IN  IF SafeTrace(o.scopes) /\ HasBracket(o.text)
                THEN /\ ~InSeq(o, ret.value)
                     /\ \A i \in 1..Len(o.text) :
                          isBracket(SubSeq(o.text, i, i)) =>
                            \E r \in {ret.value[j] : j \in 1..Len(ret.value)} :
                                /\ IsBracketRange(r)
                                /\ r.startLine = o.startLine
                                /\ r.startChar = o.startChar + i - 1
                                /\ r.endChar = o.startChar + i
                ELSE InSeq(o, ret.value)
      /\ Texts(BracketRanges(ret.value)) = SafeBrackets(ret.output, 1)
      /\ ret.stack = Pending(SafeBrackets(ret.output, 1), Len(SafeBrackets(ret.output, 1)))

UnsafeRangeWitness ==
    /\ Merged
    /\ call.content = "(a)"
    /\ call.tmTokens = headTailTokens(splitLines("(a)"), 0, SafeStack, CommentEmbeddedStack)
    /\ Texts(ret.value) = <<"(", "a)">>
    /\ ret.value[2] = ret.output[2]
    /\ ret.stack = <<"(">>

----------------------------------------------------------------------------
(* Further properties of merge, checked under SpecMerge *)

\* the resolved style of character k of line i, from the per-character state
CharStyle(i, k) ==
    LET lines == splitLines(call.content)
        semanticMap == parseSemanticTokens(call.semanticTokens, call.legend)
        lineState == buildLineState(Len(lines[i + 1]), i, call.tmTokens, semanticMap)
    IN  resolveStyle(rules, semanticRules, lineState[k])

\* the range of a list that holds character k of line i
RangeAt(ranges, i, k) ==
    CHOOSE n \in 1..Len(ranges) :
        /\ ranges[n].startLine = i
        /\ ranges[n].startChar <= k
        /\ k < ranges[n].endChar

\* C23: two neighbouring characters of a line are in the same range before
\* the bracket pass if and only if their resolved styles agree in
\* foreground, fontStyle, source, activeScopeIndex and trace; the same colour
\* and font style with a different trace, source or index give two ranges.
CompressionExact ==
    Merged =>
      LET lines == splitLines(call.content)
      IN  \A i \in 0..(Len(lines) - 1) :
            \A k \in 1..(Len(lines[i + 1]) - 1) :
              LET a == CharStyle(i, k - 1)
                  b == CharStyle(i, k)
                  same == /\ a.foreground = b.foreground
                          /\ a.fontStyle = b.fontStyle
                          /\ a.source = b.source
                          /\ a.activeScopeIndex = b.activeScopeIndex
                          /\ a.scopes = b.scopes
              IN  /\ (RangeAt(ret.output, i, k - 1) = RangeAt(ret.output, i, k)) <=> same
                  /\ ret.output[RangeAt(ret.output, i, k)].scopes = b.scopes
                  /\ ret.output[RangeAt(ret.output, i, k)].foreground = b.foreground

CompressionExactWitness ==
    /\ Merged
    /\ call.content = "aa"
    /\ call.tmTokens = overlongTokens(splitLines("aa"), 0, SafeStack)
    /\ Len(ret.output) = 2
    /\ ret.output[1].foreground = ret.output[2].foreground
    /\ ret.output[1].fontStyle = ret.output[2].fontStyle
    /\ ret.output[1].scopes = <<>>
    /\ ret.output[2].scopes = SafeStack

RECURSIVE Concat(_)
Concat(texts) == IF texts = <<>> THEN "" ELSE Head(texts) \o Concat(Tail(texts))

\* C24: the bracket pass changes the bracket characters of safe ranges and
\* nothing else: any other character lies, after the pass, in a range with
\* the foreground, fontStyle, source, scopes, scopeColors and
\* activeScopeIndex of its range before the pass; the texts of the ranges of
\* a line concatenate to the same string; a bracket of a safe range lies in
\* a range of length 1 whose scopes are the original ones plus
\* "bracket-pair-colorization", with activeScopeIndex at that entry.
BracketPassFrame ==
    Merged =>
      LET lines == splitLines(call.content)
      IN  /\ \A i \in 0..(Len(lines) - 1) :
                /\ Concat(Texts(LineRanges(ret.value, i))) = lines[i + 1]
                /\ Concat(Texts(LineRanges(ret.output, i))) = lines[i + 1]
                /\ Len(lines[i + 1]) = 0 => LineRanges(ret.value, i) = LineRanges(ret.output, i)
                /\ \A k \in 0..(Len(lines[i + 1]) - 1) :
                      LET o == ret.output[RangeAt(ret.output, i, k)]
                          r == ret.value[RangeAt(ret.value, i, k)]
                          char == SubSeq(lines[i + 1], k + 1, k + 1)
                      IN  /\ r.fontStyle = o.fontStyle
                          /\ r.source = o.source
                          /\ IF isBracket(char) /\ SafeTrace(o.scopes)
                             THEN /\ r.startChar = k /\ r.endChar = k + 1
                                  /\ r.text = char
                                  /\ r.scopes = Append(o.scopes, "bracket-pair-colorization")
                                  /\ r.activeScopeIndex = Some(Len(o.scopes))
                                  /\ Get(r.scopeColors) = Append(Get(o.scopeColors), r.foreground)
                             ELSE /\ r.foreground = o.foreground
                                  /\ r.scopes = o.scopes
                                  /\ r.scopeColors = o.scopeColors
                                  /\ r.activeScopeIndex = o.activeScopeIndex

BracketPassFrameWitness ==
    /\ Merged
    /\ call.content = "a(a"
    /\ call.tmTokens = uniformTokens(splitLines("a(a"), 0, EmbeddedStack)
    /\ Len(ret.output) = 1
    /\ Texts(ret.value) = <<"a", "(", "a">>
    /\ ret.value[1].foreground = "#CE9178"
    /\ ret.value[3].foreground = "#CE9178"
    /\ ret.value[2].scopes = Append(EmbeddedStack, "bracket-pair-colorization")
    /\ ret.value[2].activeScopeIndex = Some(3)

\* the positions of the openers still pending after the first n brackets
RECURSIVE PendingAt(_, _)
PendingAt(chars, n) ==
    IF n = 0 THEN <<>>
    ELSE LET p == PendingAt(chars, n - 1)
         IN  IF chars[n] \in {"(", "[", "{"} THEN Append(p, n)
             ELSE IF Len(p) > 0 /\ Pairs(chars[p[Len(p)]], chars[n])
             THEN SubSeq(p, 1, Len(p) - 1)
             ELSE p

\* C29: a closing bracket that pops an opener has the colour that opener
\* was given when it was pushed, and the stack is then as deep as it was
\* when the opener was coloured, whatever unmatched closing brackets or
\* unsafe ranges lie between the two.
ClosingTakesOpenersColor ==
    Merged =>
      LET bs == BracketRanges(ret.value)
          chars == Texts(bs)
      IN  \A n \in 1..Len(bs) :
            LET before == PendingAt(chars, n - 1)
            IN  (chars[n] \in {")", "]", "}"} /\ Len(PendingAt(chars, n)) < Len(before)) =>
                  LET opener == before[Len(before)]
                  IN  /\ bs[n].foreground = bs[opener].foreground
                      /\ Len(PendingAt(chars, n)) = Len(PendingAt(chars, opener - 1))
                      /\ bs[n].foreground = Palette(Len(PendingAt(chars, opener - 1)))

ClosingTakesOpenersColorWitness ==
    /\ Merged
    /\ call.content = ")()"
    /\ UniformSafe(")()")
    /\ Texts(ret.value) = <<")", "(", ")">>
    /\ ret.value[1].foreground = DefaultForeground
    /\ ret.value[2].foreground = "#FFD700"
    /\ ret.value[3].foreground = "#FFD700"
    /\ ret.stack = <<>>

----------------------------------------------------------------------------
(* LspClient *)

\* a JSON-RPC message; id, method and error are members it may lack
Message(id, method, error, result) ==
    [id |-> id, method |-> method, error |-> error, result |-> result]

Request(id, method) == Message(Some(id), Some(method), None, None)
NotificationMessage(method) == Message(None, Some(method), None, None)

PendingPromise == [state |-> "pending"]
ResolvedPromise(value) == [state |-> "resolved", value |-> value]
RejectedPromise(reason) == [state |-> "rejected", value |-> reason]

\* new LspClient(command)
NewLspClient ==
    [proc |-> "null", nextId |-> 1, pendingRequests |-> {}, isClosed |-> FALSE,
     legend |-> None, promises |-> EmptyMap, buffer |-> ""]

\* writer.write(content) on the stdin of the server process
write(srv, msg) == [srv EXCEPT !.stdin = Append(@, msg)]

\* sendRequest: the client, the server and the id of the promise returned
sendRequest(client, srv, method) ==
    LET id == client.nextId
        registered == [client EXCEPT !.nextId = id + 1,
                                     !.pendingRequests = @ \cup {id}]
    IN  IF client.proc # "null"
        THEN [lsp |-> [registered EXCEPT !.promises = MapSet(@, id, PendingPromise)],
              server |-> write(srv, Request(id, method)),
              id |-> id]
        ELSE [lsp |-> [registered EXCEPT
                         !.promises = MapSet(@, id, RejectedPromise("LSP process not running"))],
              server |-> srv,
              id |-> id]

sendNotification(client, srv, method) ==
    IF client.proc # "null" THEN write(srv, NotificationMessage(method)) ELSE srv

\* variant: a message with an id settles the request whatever it carries
handleMessage_alwaysResolve(client, msg) ==
    IF IsSome(msg.id) /\ Get(msg.id) \in client.pendingRequests
    THEN [client EXCEPT !.pendingRequests = @ \ {Get(msg.id)},
                        !.promises = MapSet(@, Get(msg.id), ResolvedPromise(msg.result))]
    ELSE client

handleMessage(client, msg) ==
    IF IsSome(msg.id) /\ Get(msg.id) \in client.pendingRequests
    THEN [client EXCEPT !.pendingRequests = @ \ {Get(msg.id)},
                        !.promises = MapSet(@, Get(msg.id),
                                            IF IsSome(msg.error)
                                            THEN RejectedPromise(Get(msg.error))
                                            ELSE ResolvedPromise(msg.result))]
    ELSE client

\* kill()
kill(client) == IF client.proc # "null" THEN [client EXCEPT !.proc = "killed"] ELSE client

----------------------------------------------------------------------------
(* The main action of the command: engines, file loop, snapshots, exit *)

OptionalMembers == {"fontStyle", "scopeColors", "activeScopeIndex"}

\* JSON.parse(JSON.stringify(range)): members that are undefined are left out
toJson(range) ==
    [k \in {m \in DOMAIN range : m \notin OptionalMembers \/ IsSome(range[m])} |->
        IF k \in OptionalMembers THEN Get(range[k]) ELSE range[k]]

jsonOf(ranges) == [k \in 1..Len(ranges) |-> toJson(ranges[k])]

MissingSnapshot == [kind |-> "missing"]
UnparseableSnapshot == [kind |-> "unparseable"]
JsonSnapshot(value) == [kind |-> "json", value |-> value]

\* assert.deepStrictEqual(actualJson, expectedJson) after parsing both
snapshotVerified(snapshot, result) ==
    snapshot.kind = "json" /\ jsonOf(result) = snapshot.value

\* variant: hasError tells whether the last file failed
hasErrorAfter_lastFileOnly(hasError, options, snapshot, result) ==
    IF options.update THEN hasError
    ELSE IF options.verify THEN ~snapshotVerified(snapshot, result)
    ELSE hasError

\* step E of the file loop: hasError after the snapshot of one file
hasErrorAfter(hasError, options, snapshot, result) ==
    IF options.update THEN hasError
    ELSE IF options.verify
    THEN IF snapshot.kind = "missing" THEN TRUE
         ELSE IF snapshotVerified(snapshot, result) THEN hasError
         ELSE TRUE
    ELSE hasError

SourceFile(exists, content, tmTokens, snapshot) ==
    [exists |-> exists, content |-> content, tmTokens |-> tmTokens, snapshot |-> snapshot]

Exited(status) == [run EXCEPT !.exitCode = Some(status)]

\* await tmEngine.init(): without the grammar the action rejects and the
\* process ends with a non-zero status
InitEngines ==
    /\ pc = "engines"
    /\ IF config.grammar = "ok"
       THEN pc' = "start" /\ run' = run
       ELSE pc' = "exited" /\ run' = Exited(1)
    /\ UNCHANGED <<files, themePath, rules, semanticRules, call, ret, config, lsp, server>>

\* new ThemeResolver(themePath), new LspClient(command), lspClient.start up
\* to the await of the initialize request
StartLsp ==
    /\ pc = "start"
    /\ LET st == loadTheme(files, themePath, [rules |-> <<>>, semanticRules |-> EmptyMap])
       IN  rules' = st.rules /\ semanticRules' = st.semanticRules
    /\ IF server.mode = "absent"
       THEN /\ lsp' = NewLspClient
            /\ run' = Exited(1)
            /\ pc' = "exited"
            /\ server' = server
       ELSE LET sent == sendRequest([NewLspClient EXCEPT !.proc = "running"], server,
                                    "initialize")
            IN  /\ lsp' = sent.lsp
                /\ server' = sent.server
                /\ run' = [run EXCEPT !.awaiting = sent.id]
                /\ pc' = "await_initialize"
    /\ UNCHANGED <<files, themePath, call, ret, config>>

\* readLoop, processBuffer and handleMessage for one message of the stream
ReadLoop ==
    /\ lsp.proc = "running"
    /\ ~lsp.isClosed
    /\ Len(server.stdout) > 0
    /\ lsp' = handleMessage(lsp, Head(server.stdout))
    /\ server' = [server EXCEPT !.stdout = Tail(@)]
    /\ UNCHANGED <<files, themePath, pc, rules, semanticRules, call, ret, config, run>>

\* readLoop when the stream is done
ReadLoopDone ==
    /\ lsp.proc = "running"
    /\ ~lsp.isClosed
    /\ server.mode = "closed"
    /\ Len(server.stdout) = 0
    /\ lsp' = [lsp EXCEPT !.isClosed = TRUE]
    /\ UNCHANGED <<files, themePath, pc, rules, semanticRules, call, ret, config, server, run>>

Settled == lsp.promises[run.awaiting].state # "pending"

\* lspClient.start after the initialize response, up to the file loop
AfterInitialize ==
    /\ pc = "await_initialize"
    /\ Settled
    /\ LET promise == lsp.promises[run.awaiting]
       IN  IF promise.state = "rejected" \/ ~IsSome(promise.value)
           THEN /\ run' = Exited(1)
                /\ pc' = "exited"
                /\ UNCHANGED <<lsp, server>>
           ELSE LET provider == Get(promise.value).capabilities.semanticTokensProvider
                IN  /\ lsp' = [lsp EXCEPT !.legend = IF IsSome(provider)
                                                     THEN Some(Get(provider).legend)
                                                     ELSE @]
                    /\ server' = sendNotification(lsp, server, "initialized")
                    /\ run' = [run EXCEPT !.hasError = FALSE]
                    /\ pc' = "files"
    /\ UNCHANGED <<files, themePath, rules, semanticRules, call, ret, config>>

\* the file loop up to the await of getSemanticTokens; a file that does not
\* exist is skipped
NextFile ==
    /\ pc = "files"
    /\ run.fileIndex < Len(config.files)
    /\ LET file == config.files[run.fileIndex + 1]
       IN  IF ~file.exists
           THEN /\ run' = [run EXCEPT !.fileIndex = @ + 1]
                /\ UNCHANGED <<pc, lsp, server>>
           ELSE LET opened == sendNotification(lsp, server, "textDocument/didOpen")
                    sent == sendRequest(lsp, opened, "textDocument/semanticTokens/full")
                IN  /\ lsp' = sent.lsp
                    /\ server' = sent.server
                    /\ run' = [run EXCEPT !.awaiting = sent.id]
                    /\ pc' = "await_tokens"
    /\ UNCHANGED <<files, themePath, rules, semanticRules, call, ret, config>>

\* getSemanticTokens after the response, the merge, the output and the
\* snapshot of one file
AfterTokens ==
    /\ pc = "await_tokens"
    /\ Settled
    /\ LET promise == lsp.promises[run.awaiting]
           file == config.files[run.fileIndex + 1]
           semanticTokens == IF promise.state = "resolved" THEN promise.value ELSE None
           result == merge(rules, semanticRules, file.content, file.tmTokens,
                           semanticTokens, lsp.legend)
       IN  run' = [run EXCEPT
                     !.results = Append(@, [file |-> run.fileIndex,
                                            request |-> run.awaiting,
                                            semanticTokens |-> semanticTokens,
                                            ranges |-> result]),
                     !.snapshots = IF config.options.update
                                   THEN MapSet(@, run.fileIndex, JsonSnapshot(jsonOf(result)))
                                   ELSE @,
                     !.hasError = hasErrorAfter(@, config.options, file.snapshot, result),
                     !.fileIndex = @ + 1]
    /\ pc' = "files"
    /\ UNCHANGED <<files, themePath, rules, semanticRules, call, ret, config, lsp, server>>

\* lspClient.shutdown() up to the await of the shutdown request
Shutdown ==
    /\ pc = "files"
    /\ run.fileIndex >= Len(config.files)
    /\ LET sent == sendRequest(lsp, server, "shutdown")
       IN  /\ lsp' = sent.lsp
           /\ server' = sent.server
           /\ run' = [run EXCEPT !.awaiting = sent.id]
    /\ pc' = "await_shutdown"
    /\ UNCHANGED <<files, themePath, rules, semanticRules, call, ret, config>>

\* shutdown after the response: the exit notification, kill, process.exit
AfterShutdown ==
    /\ pc = "await_shutdown"
    /\ Settled
    /\ server' = IF lsp.promises[run.awaiting].state = "resolved"
                 THEN sendNotification(lsp, server, "exit")
                 ELSE server
    /\ lsp' = kill(lsp)
    /\ run' = Exited(IF run.hasError THEN 1 ELSE 0)
    /\ pc' = "exited"
    /\ UNCHANGED <<files, themePath, rules, semanticRules, call, ret, config>>

----------------------------------------------------------------------------
(* The language server, as the client sees it *)

\* what a server may answer to a request
InitializeResults ==
    { Some([capabilities |-> [semanticTokensProvider |-> Some([legend |-> DummyLegend])]]),
      Some([capabilities |-> [semanticTokensProvider |-> None]]),
      None }

TokenResults == { Some([data |-> <<0, 0, 1, 0, 0>>]), None }

ResultsOf(method) ==
    IF method = "initialize" THEN InitializeResults
    ELSE IF method = "textDocument/semanticTokens/full" THEN TokenResults
    ELSE {None}

Unanswered ==
    {k \in 1..Len(server.stdin) :
        IsSome(server.stdin[k].id) /\ Get(server.stdin[k].id) \notin server.answered}

\* the server answers a request with a result or with an error
ServerResponds ==
    /\ server.mode = "up"
    /\ lsp.proc = "running"
    /\ \E k \in Unanswered :
         LET request == server.stdin[k]
         IN  \E response \in {Message(request.id, None, None, r) :
                                 r \in ResultsOf(Get(request.method))}
                             \cup {Message(request.id, None, Some("error"), None)} :
               server' = [server EXCEPT !.stdout = Append(@, response),
                                        !.answered = @ \cup {Get(request.id)}]
    /\ UNCHANGED <<files, themePath, pc, rules, semanticRules, call, ret, config, lsp, run>>

\* the server stops answering: it hangs, or it closes its output stream
ServerStops ==
    /\ server.mode = "up"
    /\ lsp.proc = "running"
    /\ \E mode \in {"silent", "closed"} : server' = [server EXCEPT !.mode = mode]
    /\ UNCHANGED <<files, themePath, pc, rules, semanticRules, call, ret, config, lsp, run>>

----------------------------------------------------------------------------
(* Inputs and specification of a run *)

MaxFiles == 2       \* files named by the configuration

RunSemanticRules ==
    loadTheme(OneTheme(MergeTheme, MissingFile), ChildPath,
              [rules |-> <<>>, semanticRules |-> EmptyMap])

\* the tokenizer's output for a text: one token over every non-empty line
Tokenized(content) == uniformTokens(splitLines(content), 0, SafeStack)

\* the snapshot of a text merged without semantic tokens
LexicalSnapshot(content) ==
    JsonSnapshot(jsonOf(merge(RunSemanticRules.rules, RunSemanticRules.semanticRules,
                              content, Tokenized(content), None, None)))

SourceFiles ==
    { SourceFile(FALSE, "", <<>>, MissingSnapshot),
      SourceFile(TRUE, "a(", Tokenized("a("), LexicalSnapshot("a(")),
      SourceFile(TRUE, "a(", Tokenized("a("), MissingSnapshot),
      SourceFile(TRUE, "a", Tokenized("a"), JsonSnapshot(<<>>)),
      SourceFile(TRUE, "a", Tokenized("a"), UnparseableSnapshot) }

Options(verify, update) == [verify |-> verify, update |-> update]

Config(grammar, sourceFiles, options) ==
    [grammar |-> grammar, files |-> sourceFiles, options |-> options]

\* a run whose start-up varies: the theme file, the grammar file, the server
IsStartupRun ==
    /\ \E theme \in {MergeTheme, MissingFile, UnparseableFile} :
         files = OneTheme(theme, MissingFile)
    /\ \E grammar \in {"ok", "missing", "unparseable"}, file \in SourceFiles :
         config = Config(grammar, <<file>>, Options(FALSE, FALSE))
    /\ \E mode \in {"up", "absent"} :
         server = [mode |-> mode, stdin |-> <<>>, stdout |-> <<>>, answered |-> {}]

\* a run whose files and options vary
IsFileRun ==
    /\ files = OneTheme(MergeTheme, MissingFile)
    /\ \E sourceFiles \in SeqsUpTo(SourceFiles, MaxFiles), verify \in BOOLEAN, update \in BOOLEAN :
         config = Config("ok", sourceFiles, Options(verify, update))
    /\ server = [mode |-> "up", stdin |-> <<>>, stdout |-> <<>>, answered |-> {}]

InitRun ==
    /\ IsStartupRun \/ IsFileRun
    /\ themePath = ChildPath
    /\ pc = "engines"
    /\ rules = <<>>
    /\ semanticRules = EmptyMap
    /\ call = NotReturned
    /\ ret = NotReturned
    /\ lsp = NewLspClient
    /\ run = [fileIndex |-> 0, hasError |-> FALSE, results |-> <<>>, snapshots |-> EmptyMap,
              awaiting |-> 0, exitCode |-> None]

ClientStep ==
    \/ InitEngines
    \/ StartLsp
    \/ ReadLoop
    \/ ReadLoopDone
    \/ AfterInitialize
    \/ NextFile
    \/ AfterTokens
    \/ Shutdown
    \/ AfterShutdown

NextRun == ClientStep \/ ServerResponds \/ ServerStops

SpecRun == InitRun /\ [][NextRun]_vars

\* the event loop runs every continuation that is ready, and a server that
\* has not stopped answers what it was asked
\* AfterTokens as the event loop sees it: the continuation of the await runs
\* once the request is settled.  Under SpecRun a step that takes pc from
\* "await_tokens" to "files" is an AfterTokens step, and AfterTokens is
\* enabled exactly when its two guards hold.
AfterTokensRuns ==
    /\ pc = "await_tokens"
    /\ Settled
    /\ pc' = "files"

\* the other callbacks of the process
ClientRuns ==
    \/ InitEngines
    \/ StartLsp
    \/ ReadLoop
    \/ ReadLoopDone
    \/ AfterInitialize
    \/ NextFile
    \/ Shutdown
    \/ AfterShutdown

\* the event loop runs a callback that is ready, and a server that is up
\* answers the requests it has read; nothing obliges the server to stay up
SpecRunFair ==
    /\ SpecRun
    /\ WF_vars(ClientRuns)
    /\ WF_pc(AfterTokensRuns)
    /\ WF_vars(ServerResponds)

----------------------------------------------------------------------------
(* Properties of a run, checked under SpecRun and SpecRunFair *)

\* the positions in the server's stdin of the messages of a method
Written(method) == {k \in 1..Len(server.stdin) : server.stdin[k].method = Some(method)}

ExitAfterShutdown ==
    \A k \in Written("exit") : \E j \in Written("shutdown") : j < k

\* C15: shutdown on a started client always ends with the server process
\* killed, whether the server answers the shutdown request with a result,
\* with an error, not at all, or has closed its output stream; and the exit
\* notification is written only after the shutdown request.
ShutdownKillsServer ==
    /\ []ExitAfterShutdown
    /\ (pc = "await_shutdown") ~> (lsp.proc = "killed")

\* the requests whose promise was rejected
RejectedRequests == {id \in DOMAIN lsp.promises : lsp.promises[id].state = "rejected"}

LexicalOnly(ranges) == \A k \in 1..Len(ranges) : ranges[k].source = "textmate"

\* C16: when the semantic-tokens request of a file fails, by an error
\* response or by no response at all, getSemanticTokens yields null, the file
\* is merged with every range lexical, and the run goes on to the next file.
SemanticFailureRecovered ==
    /\ [](\A k \in 1..Len(run.results) :
            run.results[k].request \in RejectedRequests =>
              /\ run.results[k].semanticTokens = None
              /\ LexicalOnly(run.results[k].ranges))
    /\ (pc = "await_tokens") ~> (pc = "files")

StartupFailed ==
    \/ files[themePath].kind # "theme"
    \/ config.grammar # "ok"
    \/ server.mode = "absent"
    \/ /\ 1 \in DOMAIN lsp.promises
       /\ \/ lsp.promises[1].state = "rejected"
          \/ lsp.promises[1].state = "resolved" /\ lsp.promises[1].value = None

\* C17: a missing or unparseable theme file or grammar file, or a failed
\* initialize round trip, ends the process with an error before any file is
\* tokenized, merged or written.
StartupFailuresFatal ==
    StartupFailed =>
      /\ run.results = <<>>
      /\ pc \notin {"files", "await_tokens", "await_shutdown"}
      /\ pc = "exited" => run.exitCode = Some(1)

\* the results whose file has no snapshot, or one that differs
Failing ==
    {k \in 1..Len(run.results) :
        LET snapshot == config.files[run.results[k].file + 1].snapshot
        IN  \/ snapshot.kind # "json"
            \/ snapshot.value # jsonOf(run.results[k].ranges)}

\* the indices of the configured files that exist, in order
Existing == SelectSeq([i \in 1..Len(config.files) |-> i - 1],
                      LAMBDA i : config.files[i + 1].exists)

\* C18: with --verify a failing file does not end the run: no exit status
\* is set while files remain, and a run that started its server (it sent
\* "initialized") exits only after every configured file that exists was
\* processed, in order, and the server was shut down and killed, with
\* status 1 if a processed file had no snapshot or a different one, and 0
\* otherwise.
VerifyExitStatus ==
    /\ (pc \in {"files", "await_tokens", "await_shutdown"}) => run.exitCode = None
    /\ (/\ pc = "exited"
        /\ Written("initialized") # {}
        /\ config.options.verify
        /\ ~config.options.update) =>
         /\ [k \in 1..Len(run.results) |-> run.results[k].file] = Existing
         /\ run.fileIndex = Len(config.files)
         /\ Written("shutdown") # {}
         /\ lsp.proc = "killed"
         /\ run.exitCode = Some(IF Failing # {} THEN 1 ELSE 0)

VerifyExitWitness ==
    /\ pc = "exited"
    /\ config.options = Options(TRUE, FALSE)
    /\ config.files = << SourceFile(TRUE, "a", Tokenized("a"), JsonSnapshot(<<>>)),
                         SourceFile(TRUE, "a(", Tokenized("a("), LexicalSnapshot("a(")) >>
    /\ Len(run.results) = 2
    /\ Failing = {1}
    /\ run.exitCode = Some(1)

----------------------------------------------------------------------------
(* The client with several requests in flight *)

MaxRequests == 2          \* requests the client sends
MaxServerMessages == 3    \* messages the server writes

ClientMethods == {"textDocument/semanticTokens/full", "shutdown"}

\* what a server may write: a response with a result or an error, a request
\* of its own, a notification; its ids are not tied to what it has read
ServerMessages ==
    {Message(Some(id), None, None, Some("result")) : id \in 1..MaxRequests}
    \cup {Message(Some(id), None, Some("error"), None) : id \in 1..MaxRequests}
    \cup {Request(id, "workspace/configuration") : id \in 1..MaxRequests}
    \cup {NotificationMessage("window/logMessage")}

\* a caller of sendRequest that does not wait for the earlier requests
ClientSends ==
    /\ pc = "client"
    /\ lsp.nextId <= MaxRequests
    /\ \E method \in ClientMethods :
         LET sent == sendRequest(lsp, server, method)
         IN  lsp' = sent.lsp /\ server' = sent.server
    /\ UNCHANGED <<files, themePath, pc, rules, semanticRules, call, ret, config, run>>

\* the server process writes a message to its output stream
ServerSends ==
    /\ pc = "client"
    /\ server.written < MaxServerMessages
    /\ \E msg \in ServerMessages :
         server' = [server EXCEPT !.stdout = Append(@, msg), !.written = @ + 1]
    /\ UNCHANGED <<files, themePath, pc, rules, semanticRules, call, ret, config, lsp, run>>

\* the client after start(): the process runs and readLoop is reading
InitClient ==
    /\ files = OneTheme(MergeTheme, MissingFile)
    /\ themePath = ChildPath
    /\ pc = "client"
    /\ rules = <<>>
    /\ semanticRules = EmptyMap
    /\ call = NotReturned
    /\ ret = NotReturned
    /\ config = Config("ok", <<>>, Options(FALSE, FALSE))
    /\ lsp = [NewLspClient EXCEPT !.proc = "running"]
    /\ server = [mode |-> "up", stdin |-> <<>>, stdout |-> <<>>, answered |-> {},
                 written |-> 0]
    /\ run = [fileIndex |-> 0, hasError |-> FALSE, results |-> <<>>, snapshots |-> EmptyMap,
              awaiting |-> 0, exitCode |-> None]

NextClient == ClientSends \/ ServerSends \/ ReadLoop

SpecClient == InitClient /\ [][NextClient]_vars

----------------------------------------------------------------------------
(* Properties of the client, checked under SpecClient *)

\* the step reads the first message of the server's output
Consumed == Len(server.stdout) > 0 /\ server'.stdout = Tail(server.stdout)

SettledRequests == {id \in DOMAIN lsp.promises : lsp.promises[id].state # "pending"}

\* the promises of the requests other than id are what they were
OthersUntouched(id) ==
    /\ DOMAIN lsp'.promises = DOMAIN lsp.promises
    /\ \A other \in DOMAIN lsp.promises \ {id} : lsp'.promises[other] = lsp.promises[other]

\* C25: with several requests in flight and messages arriving in any order,
\* a message whose id has a pending entry settles that request and no other:
\* its promise was pending and is rejected with the error member if the
\* message has one and resolved with the result otherwise, its entry leaves
\* the pending map, every other entry and promise is untouched; a message
\* whose id has no pending entry (a second response, an unknown id) changes
\* nothing; a promise once settled never changes, and no step other than the
\* reading of a message settles one.
ResponseSettlesOwnRequest ==
    [][ /\ \A id \in SettledRequests : lsp'.promises[id] = lsp.promises[id]
        /\ IF Consumed
           THEN LET msg == Head(server.stdout)
                IN  IF IsSome(msg.id) /\ Get(msg.id) \in lsp.pendingRequests
                    THEN LET id == Get(msg.id)
                         IN  /\ lsp.promises[id].state = "pending"
                             /\ lsp'.promises[id] =
                                  (IF IsSome(msg.error)
                                   THEN RejectedPromise(Get(msg.error))
                                   ELSE ResolvedPromise(msg.result))
                             /\ lsp'.pendingRequests = lsp.pendingRequests \ {id}
                             /\ OthersUntouched(id)
                    ELSE lsp' = lsp
           ELSE /\ SettledRequests' = SettledRequests
                /\ lsp.pendingRequests \subseteq lsp'.pendingRequests
      ]_vars

\* the second request was answered with an error before the first, and a
\* further message for it changed nothing
OutOfOrderWitness ==
    /\ pc = "client"
    /\ lsp.nextId = 3
    /\ lsp.promises[1] = PendingPromise
    /\ lsp.promises[2] = RejectedPromise("error")
    /\ lsp.pendingRequests = {1}
    /\ server.written = 2
    /\ server.stdout = <<>>

\* C26 as stated: a message of the server that carries a method, a request
\* or a notification, is read and dropped: the client is left as it was,
\* also when the id of a server request is the id of a request in flight.
ServerMessagesDropped ==
    [][ (Consumed /\ IsSome(Head(server.stdout).method)) => lsp' = lsp ]_vars

----------------------------------------------------------------------------
(* The framing of the inbound byte stream *)

\* buffer.indexOf(sub) from position i on, -1 when sub does not occur
RECURSIVE indexFrom(_, _, _)
indexFrom(s, sub, i) ==
    IF i + Len(sub) > Len(s) THEN -1
    ELSE IF SubSeq(s, i + 1, i + Len(sub)) = sub THEN i
    ELSE indexFrom(s, sub, i + 1)

indexOf(s, sub) == indexFrom(s, sub, 0)

Digits == <<"0", "1", "2", "3", "4", "5", "6", "7", "8", "9">>

isDigit(char) == \E d \in 1..10 : Digits[d] = char

digitValue(char) == (CHOOSE d \in 1..10 : Digits[d] = char) - 1

\* parseInt(digits, 10)
RECURSIVE parseInt(_)
parseInt(digits) ==
    IF Len(digits) = 0 THEN 0
    ELSE 10 * parseInt(SubSeq(digits, 1, Len(digits) - 1))
         + digitValue(SubSeq(digits, Len(digits), Len(digits)))

\* the letters of the header name, for the flag i of the pattern
UpperCase == <<"C", "O", "N", "T", "E", "L", "G", "H">>
LowerCase == <<"c", "o", "n", "t", "e", "l", "g", "h">>

lowerChar(char) ==
    IF \E k \in 1..Len(UpperCase) : UpperCase[k] = char
    THEN LowerCase[CHOOSE k \in 1..Len(UpperCase) : UpperCase[k] = char]
    ELSE char

RECURSIVE toLowerCase(_)
toLowerCase(str) ==
    IF Len(str) = 0 THEN ""
    ELSE lowerChar(SubSeq(str, 1, 1)) \o toLowerCase(SubSeq(str, 2, Len(str)))

\* the longest run of digits at the start of str
RECURSIVE digitRun(_)
digitRun(str) ==
    IF Len(str) > 0 /\ isDigit(SubSeq(str, 1, 1))
    THEN SubSeq(str, 1, 1) \o digitRun(SubSeq(str, 2, Len(str)))
    ELSE ""

\* headerPart.match(/Content-Length: (\d+)/i): the group of the leftmost match
matchContentLength(headerPart) ==
    LET name == "content-length: "
        lowered == toLowerCase(headerPart)
        starts == {i \in 0..(Len(headerPart) - Len(name) - 1) :
                     /\ SubSeq(lowered, i + 1, i + Len(name)) = name
                     /\ isDigit(SubSeq(headerPart, i + Len(name) + 1, i + Len(name) + 1))}
    IN  IF starts = {} THEN None
        ELSE LET i == CHOOSE j \in starts : \A k \in starts : j <= k
             IN  Some(digitRun(SubSeq(headerPart, i + Len(name) + 1, Len(headerPart))))

\* the bodies the server of the model writes
ResultBody == "{\"id\":1}"
OtherResultBody == "{\"id\":2}"
TruncatedBody == "{\"id\":1"

\* JSON.parse(bodyStr): the message, or None when the text is not JSON
JSONparse(bodyStr) ==
    IF bodyStr = ResultBody THEN Some(Message(Some(1), None, None, None))
    ELSE IF bodyStr = OtherResultBody THEN Some(Message(Some(2), None, None, None))
    ELSE None

LogEntry(event, message) == [event |-> event, message |-> message]

\* variant: a body that fails to parse ends the processing of the buffer
takeFrame_stopOnError(client, log) ==
    LET buffer == client.buffer
        headerMatch == indexOf(buffer, "\r\n\r\n")
    IN  IF headerMatch = -1 THEN [lsp |-> client, log |-> log, done |-> TRUE]
        ELSE
        LET headerPart == substring(buffer, 0, headerMatch)
            lengthMatch == matchContentLength(headerPart)
        IN  IF ~IsSome(lengthMatch)
            THEN [lsp |-> [client EXCEPT !.buffer = substring(buffer, headerMatch + 4, Len(buffer))],
                  log |-> Append(log, LogEntry("Invalid LSP Header:", None)),
                  done |-> FALSE]
            ELSE
            LET contentLength == parseInt(Get(lengthMatch))
                bodyStart == headerMatch + 4
            IN  IF Len(buffer) < bodyStart + contentLength
                THEN [lsp |-> client, log |-> log, done |-> TRUE]
                ELSE
                LET bodyStr == substring(buffer, bodyStart, bodyStart + contentLength)
                    message == JSONparse(bodyStr)
                IN  IF IsSome(message)
                    THEN [lsp |-> handleMessage(
                                    [client EXCEPT !.buffer = substring(buffer, bodyStart + contentLength,
                                                                        Len(buffer))],
                                    Get(message)),
                          log |-> Append(log, LogEntry("handleMessage", message)),
                          done |-> FALSE]
                    ELSE [lsp |-> client,
                          log |-> Append(log, LogEntry("Failed to parse LSP message:", None)),
                          done |-> TRUE]

\* one pass of the loop of processBuffer: the client, the log of what was
\* dispatched or reported, and whether the loop returns
takeFrame(client, log) ==
    LET buffer == client.buffer
        headerMatch == indexOf(buffer, "\r\n\r\n")
    IN  IF headerMatch = -1 THEN [lsp |-> client, log |-> log, done |-> TRUE]
        ELSE
        LET headerPart == substring(buffer, 0, headerMatch)
            lengthMatch == matchContentLength(headerPart)
        IN  IF ~IsSome(lengthMatch)
            THEN [lsp |-> [client EXCEPT !.buffer = substring(buffer, headerMatch + 4, Len(buffer))],
                  log |-> Append(log, LogEntry("Invalid LSP Header:", None)),
                  done |-> FALSE]
            ELSE
            LET contentLength == parseInt(Get(lengthMatch))
                bodyStart == headerMatch + 4
            IN  IF Len(buffer) < bodyStart + contentLength
                THEN [lsp |-> client, log |-> log, done |-> TRUE]
                ELSE
                LET bodyStr == substring(buffer, bodyStart, bodyStart + contentLength)
                    advanced == [client EXCEPT
                                   !.buffer = substring(buffer, bodyStart + contentLength,
                                                        Len(buffer))]
                    message == JSONparse(bodyStr)
                IN  IF IsSome(message)
                    THEN [lsp |-> handleMessage(advanced, Get(message)),
                          log |-> Append(log, LogEntry("handleMessage", message)),
                          done |-> FALSE]
                    ELSE [lsp |-> advanced,
                          log |-> Append(log, LogEntry("Failed to parse LSP message:", None)),
                          done |-> FALSE]

\* variant: one frame is taken from the buffer for each chunk read
processBuffer_oneFrame(client, log) ==
    LET taken == takeFrame(client, log)
    IN  [lsp |-> taken.lsp, log |-> taken.log]

\* processBuffer(): frames are taken until the buffer holds no whole frame
RECURSIVE processBuffer(_, _)
processBuffer(client, log) ==
    LET taken == takeFrame(client, log)
    IN  IF taken.done THEN [lsp |-> taken.lsp, log |-> taken.log]
        ELSE processBuffer(taken.lsp, taken.log)

MaxFrames == 2      \* frames of the inbound stream

\* a frame as the server writes it
Frame(header, body) == [header |-> header, body |-> body]

FrameBytes(frame) == frame.header \o "\r\n\r\n" \o frame.body

\* the header sendRequest writes: the name and the length of the body
LengthHeader(name, body) == name \o ": " \o Digits[Len(body) + 1]

WellFormedFrames ==
    { Frame(LengthHeader("Content-Length", ResultBody), ResultBody),
      Frame(LengthHeader("content-length", OtherResultBody), OtherResultBody) }

\* a frame with a valid header and a body that is not JSON
BadBodyFrame == Frame(LengthHeader("Content-Length", TruncatedBody), TruncatedBody)

\* a header without a length
NoLengthFrame == Frame("X", "")

Frames == WellFormedFrames \cup {BadBodyFrame, NoLengthFrame}

RECURSIVE StreamOf(_)
StreamOf(frames) ==
    IF Len(frames) = 0 THEN "" ELSE FrameBytes(Head(frames)) \o StreamOf(Tail(frames))

\* readLoop: one read of the stream gives the next bytes, however many, and
\* processBuffer runs on the buffer with these bytes appended
ReadChunk ==
    /\ pc = "reading"
    /\ lsp.proc = "running"
    /\ ~lsp.isClosed
    /\ \E n \in 1..Len(server.stdout) :
         LET value == SubSeq(server.stdout, 1, n)
             processed == processBuffer([lsp EXCEPT !.buffer = @ \o value], ret.log)
         IN  /\ lsp' = processed.lsp
             /\ ret' = [ret EXCEPT !.log = processed.log]
             /\ server' = [server EXCEPT !.stdout = SubSeq(@, n + 1, Len(@))]
    /\ UNCHANGED <<files, themePath, pc, rules, semanticRules, call, config, run>>

\* the client after start() with two requests in flight, and a server whose
\* output is a stream of frames
InitFrame ==
    /\ files = OneTheme(MergeTheme, MissingFile)
    /\ themePath = ChildPath
    /\ pc = "reading"
    /\ rules = <<>>
    /\ semanticRules = EmptyMap
    /\ call = NotReturned
    /\ ret = [op |-> "readLoop", log |-> <<>>]
    /\ config = Config("ok", <<>>, Options(FALSE, FALSE))
    /\ \E frames \in SeqsUpTo(Frames, MaxFrames) :
         LET started == [NewLspClient EXCEPT !.proc = "running"]
             up == [mode |-> "up", stdin |-> <<>>, stdout |-> StreamOf(frames),
                    answered |-> {}, frames |-> frames]
             first == sendRequest(started, up, "textDocument/semanticTokens/full")
             second == sendRequest(first.lsp, first.server, "shutdown")
         IN  lsp = second.lsp /\ server = second.server
    /\ run = [fileIndex |-> 0, hasError |-> FALSE, results |-> <<>>, snapshots |-> EmptyMap,
              awaiting |-> 0, exitCode |-> None]

NextFrame == ReadChunk

SpecFrame == InitFrame /\ [][NextFrame]_vars

----------------------------------------------------------------------------
(* Properties of the framing, checked under SpecFrame *)

\* the bytes of the first m frames of the stream
RECURSIVE BytesUpTo(_)
BytesUpTo(m) == IF m = 0 THEN 0 ELSE BytesUpTo(m - 1) + Len(FrameBytes(server.frames[m]))

Received == BytesUpTo(Len(server.frames)) - Len(server.stdout)

\* the number of frames whose last byte has arrived
Whole == CHOOSE m \in 0..Len(server.frames) :
            /\ BytesUpTo(m) <= Received
            /\ m < Len(server.frames) => BytesUpTo(m + 1) > Received

\* the id a well-formed frame answers
AnswerOf(frame) == IF frame.body = ResultBody THEN 1 ELSE 2

\* the positions of the log that report a dispatch
Dispatched == SelectSeq(ret.log, LAMBDA e : e.event = "handleMessage")

\* C28: for a stream of well-formed frames, whatever the chunks read so far,
\* the messages dispatched are those of the frames whose last byte has
\* arrived, one each, in stream order, and the buffer holds the bytes
\* received after the last whole frame, neither lost nor dispatched.
ChunkingIndependent ==
    (\A k \in 1..Len(server.frames) : server.frames[k] \in WellFormedFrames) =>
      /\ Len(ret.log) = Whole
      /\ \A k \in 1..Whole :
           ret.log[k] = LogEntry("handleMessage",
                                 Some(Message(Some(AnswerOf(server.frames[k])), None, None, None)))
      /\ lsp.buffer = SubSeq(StreamOf(server.frames), BytesUpTo(Whole) + 1, Received)

\* the first frame was dispatched and the read ended inside the header of
\* the second
SplitHeaderWitness ==
    /\ pc = "reading"
    /\ Len(server.frames) = 2
    /\ \A k \in 1..2 : server.frames[k] \in WellFormedFrames
    /\ Len(Dispatched) = 1
    /\ lsp.buffer = "content-le"
    /\ Len(server.stdout) > 0

\* the ids of the well-formed frames among the first m frames
AnsweredUpTo(m) ==
    {AnswerOf(server.frames[k]) : k \in {j \in 1..m : server.frames[j] \in WellFormedFrames}}

\* C27: a frame with a valid length header and a body that is not JSON is
\* dropped and nothing more: it is reported once, the buffer has advanced
\* past it, it settles no request, and the frames after it whose last byte
\* has arrived are dispatched.
BadFrameSkipped ==
    /\ Len(ret.log) = Whole
    /\ \A k \in 1..Whole :
         ret.log[k].event =
           (IF server.frames[k] \in WellFormedFrames THEN "handleMessage"
            ELSE IF server.frames[k] = BadBodyFrame THEN "Failed to parse LSP message:"
            ELSE "Invalid LSP Header:")
    /\ lsp.buffer = SubSeq(StreamOf(server.frames), BytesUpTo(Whole) + 1, Received)
    /\ ~lsp.isClosed
    /\ \A id \in 1..2 :
         /\ (lsp.promises[id].state = "resolved") <=> (id \in AnsweredUpTo(Whole))
         /\ (id \in lsp.pendingRequests) <=> (id \notin AnsweredUpTo(Whole))

BadFrameWitness ==
    /\ pc = "reading"
    /\ server.frames = <<BadBodyFrame,
                          Frame(LengthHeader("content-length", OtherResultBody), OtherResultBody)>>
    /\ server.stdout = ""
    /\ ret.log = <<LogEntry("Failed to parse LSP message:", None),
                    LogEntry("handleMessage", Some(Message(Some(2), None, None, None)))>>
    /\ lsp.promises[1] = PendingPromise
    /\ lsp.promises[2] = ResolvedPromise(None)
    /\ lsp.buffer = ""

====
